---- MODULE Spec2Model ----
(***************************************************************************)
(* Model of the CardMarket portfolio tracker: the browser scrape attempt   *)
(* (CardMarketScraper.scrape_item_price), the direct-request fallback      *)
(* (_fallback_http_scrape), their composition (scrape_with_fallback), the  *)
(* tracking loop (PortfolioTracker.track_all_items) and the CSV storage    *)
(* the loop reads and writes.                                              *)
(*                                                                         *)
(* Texts (error messages, captured tokens) are sequences of tokens, so     *)
(* that "substring" tests of the code are subsequence tests here.          *)
(* Optional values (Python None) are sequences of length 0 or 1.           *)
(***************************************************************************)
EXTENDS Integers, Sequences, FiniteSets, TLC

\* ------------------------------------------------------------------ bounds
\* Largest number of rows of the portfolio CSV read by one run.
MaxRows == 2

\* ------------------------------------------------------- optional values
None == << >>
Some(x) == << x >>
IsNone(o) == Len(o) = 0

\* dict.get(key, default)
Get(d, key, default) == IF key \in DOMAIN d THEN d[key] ELSE default

\* ------------------------------------------------------------------ texts
\* `needle in text` for texts that are token sequences.
Contains(text, needle) ==
    \E i \in 0..(Len(text) - Len(needle)) :
        \A j \in 1..Len(needle) : text[i + j] = needle[j]

\* str(status) of an integer response status.
StatusStr(s) == ToString(s)

\* f"HTTP {response.status}"
HttpError(s) == << "HTTP", StatusStr(s) >>

\* "403" in str(error)
Mentions403(text) == Contains(text, << "403" >>)

\* ------------------------------------------------------------- exceptions
\* Exceptions the browser engine, the HTTP client and the file system can
\* raise.  The engine's timeout message quotes the URL being loaded, so an
\* item URL with 403 in it puts "403" in the message.
TimeoutPlain == [kind |-> "TimeoutError",
                 text |-> << "Timeout", "30000ms", "exceeded" >>]
TimeoutUrl403 == [kind |-> "TimeoutError",
                  text |-> << "Timeout", "exceeded", "navigating", "to", "403" >>]
\* The awaited calls of the page and of the HTTP client are all bounded by
\* a timeout; the code treats every exception alike but for its text.
Exceptions == { TimeoutPlain, TimeoutUrl403 }
\* The engine failing to start (test_scrape_item_price_exception).
NetworkError == [kind |-> "Error", text |-> << "Network", "error" >>]

\* float() of a malformed token
ValueError == [kind |-> "ValueError",
               text |-> << "could", "not", "convert", "string", "to", "float" >>]

\* UnboundLocalError of `browser` in the finally block when launch failed
UnboundLocalError == [kind |-> "UnboundLocalError",
                      text |-> << "local", "variable", "browser", "referenced",
                                  "before", "assignment" >>]

\* str(e)
Str(e) == e.text

\* ------------------------------------------------------ numeric parsing
Digits == { "0", "1", "2", "3", "4", "5", "6", "7", "8", "9" }
DigitVal(c) == CASE c = "0" -> 0 [] c = "1" -> 1 [] c = "2" -> 2 [] c = "3" -> 3
                 [] c = "4" -> 4 [] c = "5" -> 5 [] c = "6" -> 6 [] c = "7" -> 7
                 [] c = "8" -> 8 [] c = "9" -> 9

HasChar(s, c) == \E i \in 1..Len(s) : s[i] = c

\* s.replace(c, r) where r is a text (possibly empty)
RECURSIVE Replace(_, _, _)
Replace(s, c, r) ==
    IF s = << >> THEN << >>
    ELSE (IF Head(s) = c THEN r ELSE << Head(s) >>) \o Replace(Tail(s), c, r)

RECURSIVE DigitsToNat(_)
DigitsToNat(s) ==
    IF s = << >> THEN 0 ELSE 10 * DigitsToNat(SubSeq(s, 1, Len(s) - 1)) + DigitVal(s[Len(s)])

AllDigits(s) == \A i \in 1..Len(s) : s[i] \in Digits

\* Number of decimals the model keeps of a parsed amount.
Decimals == 2
RECURSIVE Pow10(_)
Pow10(n) == IF n = 0 THEN 1 ELSE 10 * Pow10(n - 1)

\* Position of the first period of s, or 0.
FirstDot(s) == IF HasChar(s, ".")
               THEN CHOOSE i \in 1..Len(s) : s[i] = "." /\ \A j \in 1..(i - 1) : s[j] # "."
               ELSE 0

\* float(s) accepts digits with at most one period and at least one digit.
FloatValid(s) ==
    LET d == FirstDot(s)
        ip == IF d = 0 THEN s ELSE SubSeq(s, 1, d - 1)
        fp == IF d = 0 THEN << >> ELSE SubSeq(s, d + 1, Len(s))
    IN  AllDigits(ip) /\ AllDigits(fp) /\ Len(ip) + Len(fp) > 0

\* Mutant: the decimals are dropped.
FloatValue_IntegerPart(s) ==
    LET d == FirstDot(s)
        ip == IF d = 0 THEN s ELSE SubSeq(s, 1, d - 1)
    IN  DigitsToNat(ip) * Pow10(Decimals)

\* float(s) in units of 10^-Decimals (the tokens of the model have at most
\* Decimals decimals).
FloatValue(s) ==
    LET d == FirstDot(s)
        ip == IF d = 0 THEN s ELSE SubSeq(s, 1, d - 1)
        fp == IF d = 0 THEN << >> ELSE SubSeq(s, d + 1, Len(s))
        fpk == SubSeq(fp, 1, IF Len(fp) < Decimals THEN Len(fp) ELSE Decimals)
    IN  DigitsToNat(ip) * Pow10(Decimals) + DigitsToNat(fpk) * Pow10(Decimals - Len(fpk))

\* Mutant: a comma is always taken for a thousands separator.
NormalizeSeparators_StripComma(price_str) == Replace(price_str, ",", << >>)

\* The separator normalisation shared by _extract_price and
\* _extract_seller_prices.
NormalizeSeparators(price_str) ==
    IF HasChar(price_str, ",") /\ ~HasChar(price_str, ".")
    THEN Replace(price_str, ",", << "." >>)
    ELSE IF HasChar(price_str, ",") /\ HasChar(price_str, ".")
    THEN Replace(price_str, ",", << >>)
    ELSE price_str

\* Mutant: a field whose pattern does not match is given as zero.
_extract_number_ZeroDefault(capture) ==
    IF IsNone(capture) THEN Some(0)
    ELSE Some(DigitsToNat(Replace(capture[1], ",", << >>)))

\* _extract_number on the capture of its pattern (None when no match).
\* The capture is digits only, so int() cannot fail.
_extract_number(capture) ==
    IF IsNone(capture) THEN None
    ELSE Some(DigitsToNat(Replace(capture[1], ",", << >>)))

\* _extract_price raises ValueError when float() rejects the token.
_extract_price_raises(capture) ==
    ~IsNone(capture) /\ ~FloatValid(NormalizeSeparators(capture[1]))

_extract_price(capture) ==
    IF IsNone(capture) THEN None
    ELSE Some(FloatValue(NormalizeSeparators(capture[1])))

\* The seller-price range of _extract_seller_prices, in the model's unit.
PriceLow == 10 * Pow10(Decimals)
PriceHigh == 10000 * Pow10(Decimals)
SellerLimit == 50

\* The values _extract_seller_prices keeps of its tokens (before set/sort).
KeptPrices(tokens) ==
    { FloatValue(NormalizeSeparators(tokens[i])) :
        i \in { k \in 1..Len(tokens) :
                  /\ FloatValid(NormalizeSeparators(tokens[k]))
                  /\ PriceLow <= FloatValue(NormalizeSeparators(tokens[k]))
                  /\ FloatValue(NormalizeSeparators(tokens[k])) <= PriceHigh } }

\* sorted(list(set(prices)))
RECURSIVE Sorted(_)
Sorted(S) ==
    IF S = {} THEN << >>
    ELSE LET m == CHOOSE x \in S : \A y \in S : x <= y
         IN  << m >> \o Sorted(S \ { m })

\* Mutant: the list is not cut.
Take_NoLimit(s, n) == s

\* unique_prices[:n]
Take(s, n) == SubSeq(s, 1, IF Len(s) < n THEN Len(s) ELSE n)

\* Mutant: the tokens are cut to the limit before they are parsed and sorted.
_extract_seller_prices_CutFirst(tokens) == Sorted(KeptPrices(Take(tokens, SellerLimit)))

\* Lines 594-618: the kept values, without duplicates, ascending, the first
\* SellerLimit of them.
_extract_seller_prices(tokens) == Take(Sorted(KeptPrices(tokens)), SellerLimit)

\* min(seller_prices) if seller_prices else None
MinOf(s) == IF s = << >> THEN None ELSE Some(s[1])

\* Mutant: the first price of the list is taken for the largest.
MaxOf_First(s) == IF s = << >> THEN None ELSE Some(s[1])

\* max(seller_prices) if seller_prices else None (the list is ascending)
MaxOf(s) == IF s = << >> THEN None ELSE Some(s[Len(s)])

\* ----------------------------------------------------------------- markup
\* A page's markup, as the scraper sees it: whether its lower-cased text
\* holds one of the challenge-indicator phrases, the capture of each of the
\* six label patterns (None when the pattern does not match) and the tokens
\* the seller-price pattern finds.
Tok_125 == << "1", "2", "5" >>
Tok_14_50 == << "1", "4", ",", "5", "0" >>
Tok_13_25 == << "1", "3", ",", "2", "5" >>
Tok_13_75 == << "1", "3", ",", "7", "5" >>
Tok_15_00 == << "1", "5", ",", "0", "0" >>
Tok_14_25 == << "1", "4", ",", "2", "5" >>
Tok_1_2_3 == << "1", ",", "2", ",", "3" >>
Tok_2_3 == << "2", ",", "3" >>

\* sample_html of test_end_to_end_tracking_flow
SampleMarkup ==
    [indicator |-> FALSE,
     available_items |-> Some(Tok_125), from_price |-> Some(Tok_14_50),
     price_trend |-> Some(Tok_13_25), avg_30_days |-> Some(Tok_13_75),
     avg_7_days |-> None, avg_1_day |-> None,
     seller_tokens |-> << Tok_14_50, Tok_13_25, Tok_13_75, Tok_14_50, Tok_15_00, Tok_14_25 >>]

\* a page without any of the fields
EmptyMarkup ==
    [indicator |-> FALSE,
     available_items |-> None, from_price |-> None,
     price_trend |-> None, avg_30_days |-> None,
     avg_7_days |-> None, avg_1_day |-> None,
     seller_tokens |-> << >>]

\* a bot-mitigation interstitial
ChallengeMarkup == [EmptyMarkup EXCEPT !.indicator = TRUE]

\* a page whose From field holds a token float() rejects ("1,2,3 €")
BadTokenMarkup ==
    [EmptyMarkup EXCEPT !.from_price = Some(Tok_1_2_3), !.seller_tokens = << Tok_2_3 >>]

Markups == { SampleMarkup, EmptyMarkup, ChallengeMarkup, BadTokenMarkup }

\* Response statuses of the target page, of a reload and of a direct fetch.
Statuses == { 200, 403, 404, 500 }
\* Response statuses of the home page and of the category page.
HopStatuses == { 200, 403 }

\* ------------------------------------------------------------ result records
ErrorResult(text) == [status |-> "error", error |-> text]

\* Lines 445-469: the six fields, the seller list and the derived values.
\* Raises ValueError when one of the five price captures is malformed.
ExtractRaises(m) ==
    \/ _extract_price_raises(m.from_price)
    \/ _extract_price_raises(m.price_trend)
    \/ _extract_price_raises(m.avg_30_days)
    \/ _extract_price_raises(m.avg_7_days)
    \/ _extract_price_raises(m.avg_1_day)

\* Mutant: like the fallback, the browser path fails when no field and no
\* seller price was extracted.
BrowserSuccess_RequireData(m) ==
    LET seller_prices == _extract_seller_prices(m.seller_tokens)
        r == [status |-> "success",
              available_items |-> _extract_number(m.available_items),
              from_price |-> _extract_price(m.from_price),
              price_trend |-> _extract_price(m.price_trend),
              avg_30_days |-> _extract_price(m.avg_30_days),
              avg_7_days |-> _extract_price(m.avg_7_days),
              avg_1_day |-> _extract_price(m.avg_1_day),
              seller_prices |-> seller_prices,
              min_seller_price |-> MinOf(seller_prices),
              max_seller_price |-> MaxOf(seller_prices),
              seller_count |-> Len(seller_prices)]
    IN  IF seller_prices = << >>
           /\ IsNone(r.available_items) /\ IsNone(r.from_price) /\ IsNone(r.price_trend)
           /\ IsNone(r.avg_30_days) /\ IsNone(r.avg_7_days) /\ IsNone(r.avg_1_day)
        THEN ErrorResult(<< "No", "data", "extracted" >>)
        ELSE r

BrowserSuccess(m) ==
    LET seller_prices == _extract_seller_prices(m.seller_tokens)
    IN  [status |-> "success",
         available_items |-> _extract_number(m.available_items),
         from_price |-> _extract_price(m.from_price),
         price_trend |-> _extract_price(m.price_trend),
         avg_30_days |-> _extract_price(m.avg_30_days),
         avg_7_days |-> _extract_price(m.avg_7_days),
         avg_1_day |-> _extract_price(m.avg_1_day),
         seller_prices |-> seller_prices,
         min_seller_price |-> MinOf(seller_prices),
         max_seller_price |-> MaxOf(seller_prices),
         seller_count |-> Len(seller_prices)]

\* Mutant: the success record of the fallback carries no method tag.
FallbackExtract_Untagged(m) ==
    LET available_items == _extract_number(m.available_items)
        from_price == _extract_price(m.from_price)
    IN  IF _extract_price_raises(m.from_price)
        THEN ErrorResult(<< "Fallback", "failed:" >> \o Str(ValueError))
        ELSE IF ~IsNone(available_items) \/ ~IsNone(from_price)
        THEN [status |-> "success",
              available_items |-> available_items,
              from_price |-> from_price,
              price_trend |-> None, avg_30_days |-> None,
              avg_7_days |-> None, avg_1_day |-> None,
              seller_prices |-> << >>,
              min_seller_price |-> None, max_seller_price |-> None,
              seller_count |-> 0]
        ELSE ErrorResult(<< "No", "data", "extracted" >>)

\* Lines 525-547: the reduced extraction of the fallback on a 200 response.
FallbackExtract(m) ==
    LET available_items == _extract_number(m.available_items)
        from_price == _extract_price(m.from_price)
    IN  IF _extract_price_raises(m.from_price)
        THEN ErrorResult(<< "Fallback", "failed:" >> \o Str(ValueError))
        ELSE IF ~IsNone(available_items) \/ ~IsNone(from_price)
        THEN [status |-> "success",
              available_items |-> available_items,
              from_price |-> from_price,
              price_trend |-> None, avg_30_days |-> None,
              avg_7_days |-> None, avg_1_day |-> None,
              seller_prices |-> << >>,
              min_seller_price |-> None, max_seller_price |-> None,
              seller_count |-> 0,
              method |-> "http_fallback"]
        ELSE ErrorResult(<< "No", "data", "extracted" >>)

\* Mutant: the browser error is dropped from the combined message.
CombinedError_FallbackOnly(browser_error, fallback_error) ==
    << "Fallback:" >> \o fallback_error

\* Line 565: f"Browser: {result.get('error')}, Fallback: {fallback_result.get('error')}"
CombinedError(browser_error, fallback_error) ==
    << "Browser:" >> \o browser_error \o << ",", "Fallback:" >> \o fallback_error

\* ------------------------------------------------------------ CSV storage
\* A row of the portfolio CSV the user maintains.
CsvRows ==
    { [Link |-> "/en/Magic/Products/A", Name |-> "Card A", QuantityValid |-> TRUE, Quantity |-> 1,
       Date |-> "2024-01-15", Price |-> Some(1050 * Pow10(Decimals - 2))],
      [Link |-> "/en/Pokemon/Products/B", Name |-> "Card B", QuantityValid |-> TRUE, Quantity |-> 2,
       Date |-> "", Price |-> None],
      [Link |-> "", Name |-> "No link", QuantityValid |-> TRUE, Quantity |-> 1,
       Date |-> "", Price |-> None],
      [Link |-> "/en/Magic/Products/A", Name |-> "Bad quantity", QuantityValid |-> FALSE, Quantity |-> 0,
       Date |-> "", Price |-> None] }

SeqsUpTo(S, n) == UNION { [1..k -> S] : k \in 0..n }

\* load_portfolio_from_csv over the rows of the file: int() of a bad
\* quantity raises inside the loop, the except clause logs and the rows
\* appended so far are returned.
RECURSIVE LoadRows(_, _)
LoadRows(rows, acc) ==
    IF rows = << >> THEN acc
    ELSE LET row == Head(rows)
         IN  IF ~row.QuantityValid THEN acc
             ELSE IF row.Link # "" /\ row.Name # ""
             THEN LoadRows(Tail(rows),
                           Append(acc, [link |-> row.Link, name |-> row.Name,
                                        purchase_date |-> row.Date,
                                        quantity |-> row.Quantity,
                                        purchase_price |-> row.Price]))
             ELSE LoadRows(Tail(rows), acc)

load_portfolio_from_csv(rows) == LoadRows(rows, << >>)

\* Index of the row of `existing` with this link (0 when absent).
IndexOfLink(existing, link) ==
    IF \E i \in 1..Len(existing) : existing[i].link = link
    THEN CHOOSE i \in 1..Len(existing) : existing[i].link = link
    ELSE 0

\* Mutant: the stored item is replaced by a fresh one under the same id.
UpdatedItem_Recreated(item, item_data, current_time) ==
    [id |-> item.id, link |-> item.link, name |-> item_data.name,
     purchase_date |-> item_data.purchase_date, quantity |-> item_data.quantity,
     purchase_price |-> item_data.purchase_price,
     created_at |-> current_time, updated_at |-> current_time]

\* Lines 67-75: the stored item of a link updated from the input; id, link
\* and created_at are the stored ones.  current_time is the reading of the
\* clock, one for the call.
UpdatedItem(item, item_data, current_time) ==
    [id |-> item.id, link |-> item.link, name |-> item_data.name,
     purchase_date |-> item_data.purchase_date, quantity |-> item_data.quantity,
     purchase_price |-> item_data.purchase_price,
     created_at |-> item.created_at, updated_at |-> current_time]

\* Lines 77-88: the item made for a link that is not stored.
NewItem(next_id, item_data, current_time) ==
    [id |-> next_id, link |-> item_data.link, name |-> item_data.name,
     purchase_date |-> item_data.purchase_date, quantity |-> item_data.quantity,
     purchase_price |-> item_data.purchase_price,
     created_at |-> current_time, updated_at |-> current_time]

\* Mutant: a new item is put in front of the stored ones.
RECURSIVE SyncLoop_Prepend(_, _, _, _)
SyncLoop_Prepend(existing, items, next_id, current_time) ==
    IF items = << >> THEN existing
    ELSE LET item_data == Head(items)
             i == IndexOfLink(existing, item_data.link)
         IN  IF i # 0
             THEN SyncLoop_Prepend([existing EXCEPT ![i] =
                               UpdatedItem(existing[i], item_data, current_time)],
                           Tail(items), next_id, current_time)
             ELSE SyncLoop_Prepend(<< NewItem(next_id, item_data, current_time) >> \o existing,
                           Tail(items), next_id + 1, current_time)

\* The update-or-add loop of sync_portfolio_items (lines 62-91) over the
\* insertion-ordered dict existing_items, here a sequence of rows with
\* distinct links.
RECURSIVE SyncLoop(_, _, _, _)
SyncLoop(existing, items, next_id, current_time) ==
    IF items = << >> THEN existing
    ELSE LET item_data == Head(items)
             i == IndexOfLink(existing, item_data.link)
         IN  IF i # 0
             THEN SyncLoop([existing EXCEPT ![i] =
                               UpdatedItem(existing[i], item_data, current_time)],
                           Tail(items), next_id, current_time)
             ELSE SyncLoop(Append(existing, NewItem(next_id, item_data, current_time)),
                           Tail(items), next_id + 1, current_time)

\* existing_items[row['link']] = row over the rows of the file: a later row
\* with the same link replaces the earlier one, in the earlier one's place.
RECURSIVE ReadExisting(_, _)
ReadExisting(rows, acc) ==
    IF rows = << >> THEN acc
    ELSE LET i == IndexOfLink(acc, Head(rows).link)
         IN  ReadExisting(Tail(rows),
                          IF i # 0 THEN [acc EXCEPT ![i] = Head(rows)]
                          ELSE Append(acc, Head(rows)))

\* sync_portfolio_items: the file is opened for writing (truncated) and is
\* written only when the input list is not empty.
sync_portfolio_items(file, items, current_time) ==
    LET existing_items == ReadExisting(file, << >>)
        next_id == Len(existing_items) + 1
    IN  IF items = << >> THEN << >>
        ELSE SyncLoop(existing_items, items, next_id, current_time)

\* Mutant: only the first row of the file is returned.
get_portfolio_items_First(file) == IF file = << >> THEN << >> ELSE << file[1] >>

\* get_portfolio_items: the rows of the file, in file order.
get_portfolio_items(file) == file

\* save_price_data, lines 112-130: the row built; scraped_at is the reading
\* of the clock.  The ISO texts of two readings compare as the readings do,
\* and str() of two ids is equal when the ids are.
PriceRecord(item_id, item_name, price_data, scraped_at) ==
    [item_id |-> item_id,
     item_name |-> item_name,
     available_items |-> Get(price_data, "available_items", None),
     from_price |-> Get(price_data, "from_price", None),
     price_trend |-> Get(price_data, "price_trend", None),
     avg_30_days |-> Get(price_data, "avg_30_days", None),
     avg_7_days |-> Get(price_data, "avg_7_days", None),
     avg_1_day |-> Get(price_data, "avg_1_day", None),
     min_seller_price |-> Get(price_data, "min_seller_price", None),
     max_seller_price |-> Get(price_data, "max_seller_price", None),
     seller_count |-> Get(price_data, "seller_count", 0),
     seller_prices |-> Get(price_data, "seller_prices", << >>),
     scrape_status |-> Get(price_data, "status", "success"),
     error_message |-> Get(price_data, "error", << >>),
     scraped_at |-> scraped_at]

\* Mutant: the file is rewritten with the new row only.
save_price_data_Overwrite(file, item_id, item_name, price_data, scraped_at) ==
    << PriceRecord(item_id, item_name, price_data, scraped_at) >>

\* save_price_data, lines 132-138: the row is appended to the file.
save_price_data(file, item_id, item_name, price_data, scraped_at) ==
    Append(file, PriceRecord(item_id, item_name, price_data, scraped_at))

\* Mutant: the first row of the item is returned.
RECURSIVE LatestLoop_First(_, _, _)
LatestLoop_First(rows, item_id, latest_record) ==
    IF rows = << >> THEN latest_record
    ELSE LatestLoop_First(Tail(rows), item_id,
                    IF Head(rows).item_id = item_id /\ latest_record = None
                    THEN Some(Head(rows)) ELSE latest_record)

\* get_latest_price_data, lines 145-148: the loop over the rows of the file.
RECURSIVE LatestLoop(_, _, _)
LatestLoop(rows, item_id, latest_record) ==
    IF rows = << >> THEN latest_record
    ELSE LatestLoop(Tail(rows), item_id,
                    IF Head(rows).item_id = item_id THEN Some(Head(rows)) ELSE latest_record)

\* get_latest_price_data(item_id)
get_latest_price_data(file, item_id) == LatestLoop(file, item_id, None)

\* records.sort(key=lambda x: x['scraped_at'], reverse=True): the sort is
\* stable, so rows of equal scraped_at keep their order.
RECURSIVE SortByScrapedAtDesc(_)
SortByScrapedAtDesc(records) ==
    IF records = << >> THEN << >>
    ELSE LET i == CHOOSE k \in 1..Len(records) :
                    /\ \A j \in 1..Len(records) : records[j].scraped_at <= records[k].scraped_at
                    /\ \A j \in 1..(k - 1) : records[j].scraped_at < records[k].scraped_at
         IN  << records[i] >>
               \o SortByScrapedAtDesc(SubSeq(records, 1, i - 1) \o SubSeq(records, i + 1, Len(records)))

\* get_price_history(item_id, limit), lines 153-163, for limit >= 0.
get_price_history(file, item_id, limit) ==
    LET records == SelectSeq(file, LAMBDA row : row.item_id = item_id)
    IN  Take(SortByScrapedAtDesc(records), limit)

\* get_portfolio_summary, lines 100-117: per stored item its name, quantity
\* and purchase price with the From price and the time of its latest row.
get_portfolio_summary(file, history) ==
    LET items == get_portfolio_items(file)
        item_summary(item) ==
            LET latest_price == get_latest_price_data(history, item.id)
            IN  [name |-> item.name,
                 quantity |-> item.quantity,
                 purchase_price |-> item.purchase_price,
                 current_price |-> IF latest_price # None THEN latest_price[1].from_price ELSE None,
                 last_updated |-> IF latest_price # None THEN Some(latest_price[1].scraped_at)
                                  ELSE None]
    IN  [total_items |-> Len(items),
         items |-> [k \in 1..Len(items) |-> item_summary(items[k])]]

\* open() / write of the price history failing
OSError == [kind |-> "OSError", text |-> << "No", "space", "left", "on", "device" >>]

\* The << id, link >> pairs of the rows of the file.
IdLinks(file) == { << file[i].id, file[i].link >> : i \in 1..Len(file) }

\* Storage left by earlier runs: none, or card B synced by an earlier run,
\* when four copies were held.
PriorFiles ==
    { << >>,
      sync_portfolio_items(<< >>, << [link |-> "/en/Pokemon/Products/B",
                                      name |-> "Card B", purchase_date |-> "",
                                      quantity |-> 4, purchase_price |-> None] >>, 0) }

\* ------------------------------------------------------------------ state
VARIABLES
    portfolio_file,      \* rows of data/portfolio_items.csv
    assigned,            \* history: the << id, link >> pairs storage has held
    reader,              \* load_portfolio_from_csv: the rows of the CSV read
    price_history_file,  \* rows of data/price_history.csv
    now,                 \* the clock reading (datetime.utcnow()) of the last save
    saves,               \* per item id, the rows saved for it so far, in order
    answer,              \* what the last query of the price history returned
    tpc,                 \* position of track_all_items
    portfolio_items,     \* track_all_items: portfolio_items, the list loaded,
                         \* live until the sync (line 77)
    stored_items,        \* track_all_items: stored_items
    idx,                 \* track_all_items: index of the loop's item
    events,              \* what the loop did so far, per item id
    pc,                  \* position of scrape_with_fallback / scrape_item_price
    browser,             \* scrape_item_price: "unbound", "open" or "closed"
    closeCalls,          \* browser.close() calls of the attempt
    initScript,          \* context.add_init_script was called
    steps,               \* awaited calls of the attempt and how each ended
    homepage_response,   \* status of the home-page response, live until the next
                         \* await (it is only logged, line 374)
    game_response,       \* status of the category-page response, likewise (385)
    response,            \* scrape_item_price: response: its status, and whether
                         \* the target navigation's response had cf-mitigated
    result,              \* scrape_item_price: result built at lines 456-469
    page_text,           \* scrape_item_price: the markup page.content() gave (line 443)
    sip_return,          \* what scrape_item_price returned (None before)
    fallback_result,     \* scrape_with_fallback: fallback_result (None before)
    fetchCount,          \* session.get calls of the attempt
    ret,                 \* outcome of scrape_with_fallback
    seller_text,         \* _extract_seller_prices: the price tokens of `text`
    seller_prices,       \* _extract_seller_prices: the list returned
    field_capture,       \* _extract_price: what the pattern captured, None
                         \* when it did not match
    field_value          \* _extract_price: the value returned or the exception

sellerVars == << seller_text, seller_prices >>
fieldVars == << field_capture, field_value >>
parseVars == << sellerVars, fieldVars >>
storeVars == << now, saves, answer >>
trackerVars == << portfolio_file, assigned, price_history_file, storeVars, tpc, reader, portfolio_items, stored_items,
                 idx, events, parseVars >>
attemptVars == << pc, browser, closeCalls, initScript, steps, homepage_response,
                  game_response, response, result, page_text, sip_return, fallback_result,
                  fetchCount, ret >>
vars == << portfolio_file, assigned, price_history_file, now, saves, answer, tpc, reader, portfolio_items, stored_items, idx, events,
           seller_text, seller_prices, field_capture, field_value,
           pc, browser, closeCalls, initScript, steps, homepage_response,
           game_response, response, result, page_text, sip_return, fallback_result,
           fetchCount, ret >>

\* The ids sync_portfolio_items can give in a run.
ItemIds == 1..(MaxRows + 1)

NoOutcome == [kind |-> "none"]
Returned(r) == [kind |-> "return", value |-> r]
Raised(e) == [kind |-> "raise", exc |-> e]

\* The locals of an attempt do not outlive it: they are cleared when
\* scrape_with_fallback is called and when the loop has taken its outcome.
AttemptReset ==
    /\ browser' = "unbound"
    /\ closeCalls' = 0
    /\ initScript' = FALSE
    /\ steps' = << >>
    /\ homepage_response' = None
    /\ game_response' = None
    /\ response' = None
    /\ result' = None
    /\ page_text' = None
    /\ sip_return' = None
    /\ fallback_result' = None
    /\ fetchCount' = 0
    /\ ret' = NoOutcome

Init ==
    /\ portfolio_file \in PriorFiles
    /\ assigned = IdLinks(portfolio_file)
    /\ reader = << >>
    /\ price_history_file = << >>
    /\ now = 0
    /\ saves = [id \in ItemIds |-> << >>]
    /\ answer = None
    /\ tpc = "idle"
    /\ portfolio_items = << >>
    /\ stored_items = << >>
    /\ idx = 0
    /\ events = << >>
    /\ pc = "idle"
    /\ browser = "unbound"
    /\ closeCalls = 0
    /\ initScript = FALSE
    /\ steps = << >>
    /\ homepage_response = None
    /\ game_response = None
    /\ response = None
    /\ result = None
    /\ page_text = None
    /\ sip_return = None
    /\ fallback_result = None
    /\ fetchCount = 0
    /\ ret = NoOutcome
    /\ seller_text = << >>
    /\ seller_prices = << >>
    /\ field_capture = None
    /\ field_value = NoOutcome

\* An entry of `steps`: the call, "ok" or the kind of the exception it
\* raised, and the status of the response it returned (0 when it returns
\* none or is not the target navigation, the reload or the direct request
\* of the fallback).  The page.content()
\* of challenge handling has outcome "indicator" when the markup it read
\* holds a challenge-indicator phrase.
Step(name, outcome, status) == [step |-> name, outcome |-> outcome, status |-> status]
Log(name, outcome) == steps' = Append(steps, Step(name, outcome, 0))
LogResponse(name, status) == steps' = Append(steps, Step(name, "ok", status))

\* Mutant: every status other than 200 is taken for a challenge.
ChallengeDetected_AnyNon200(status, mitigated) == status # 200 \/ mitigated

\* Line 397: response.status == 403 or 'cf-mitigated' in dict(response.headers)
ChallengeDetected(status, mitigated) == status = 403 \/ mitigated

\* ------------------------------------------------- scrape_item_price
\* The except clause of lines 475-489: the attempt returns an error record
\* holding str(e); the finally clause runs next.
Handler(name, e) ==
    /\ sip_return' = Some(ErrorResult(Str(e)))
    /\ pc' = "finally"
    /\ Log(name, e.kind)

\* Mutant: the exception of the call is logged and the attempt goes on.
Await_Swallow(at, name, next) ==
    /\ pc = at
    /\ pc' = next
    /\ \/ Log(name, "ok")
       \/ \E e \in Exceptions : Log(name, e.kind)
    /\ UNCHANGED sip_return

\* An awaited call between launch and the target navigation that either
\* completes (and the attempt moves to `next`) or raises into the handler.
Await(at, name, next) ==
    /\ pc = at
    /\ \/ /\ pc' = next
          /\ Log(name, "ok")
          /\ UNCHANGED sip_return
       \/ \E e \in Exceptions : Handler(name, e)

\* Line 79: `async with async_playwright() as p` is entered outside the try
\* block, so an exception of the engine start leaves scrape_item_price and
\* scrape_with_fallback.
StartPlaywright ==
    /\ pc = "start_playwright"
    /\ \/ /\ pc' = "launch"
          /\ Log("async_playwright", "ok")
          /\ UNCHANGED ret
       \/ /\ pc' = "returned"
          /\ ret' = Raised(NetworkError)
          /\ Log("async_playwright", NetworkError.kind)
    /\ UNCHANGED << trackerVars, browser, closeCalls, initScript, homepage_response,
                    game_response, response, result, page_text, sip_return, fallback_result,
                    fetchCount >>

\* Lines 128-131: browser = await p.chromium.launch(...)
Launch ==
    /\ pc = "launch"
    /\ \/ /\ pc' = "new_context"
          /\ browser' = "open"
          /\ Log("launch", "ok")
          /\ UNCHANGED sip_return
       \/ /\ \E e \in Exceptions : Handler("launch", e)
          /\ UNCHANGED browser
    /\ UNCHANGED << trackerVars, closeCalls, initScript, homepage_response,
                    game_response, response, result, page_text, fallback_result, fetchCount, ret >>

\* Mutant: the page is opened right after the context, without the init
\* script.
NewContext_SkipInitScript ==
    /\ Await("new_context", "new_context", "new_page")
    /\ UNCHANGED << trackerVars, browser, closeCalls, initScript, homepage_response,
                    game_response, response, result, page_text, fallback_result, fetchCount, ret >>

\* Lines 134-174: context = await browser.new_context(...)
NewContext ==
    /\ Await("new_context", "new_context", "add_init_script")
    /\ UNCHANGED << trackerVars, browser, closeCalls, initScript, homepage_response,
                    game_response, response, result, page_text, fallback_result, fetchCount, ret >>

\* Lines 177-352: await context.add_init_script(...)
AddInitScript ==
    /\ pc = "add_init_script"
    /\ \/ /\ pc' = "new_page"
          /\ initScript' = TRUE
          /\ Log("add_init_script", "ok")
          /\ UNCHANGED sip_return
       \/ /\ \E e \in Exceptions : Handler("add_init_script", e)
          /\ UNCHANGED initScript
    /\ UNCHANGED << trackerVars, browser, closeCalls, homepage_response,
                    game_response, response, result, page_text, fallback_result, fetchCount, ret >>

\* Line 354: page = await context.new_page()
NewPage ==
    /\ Await("new_page", "new_page", "goto_home")
    /\ UNCHANGED << trackerVars, browser, closeCalls, initScript, homepage_response,
                    game_response, response, result, page_text, fallback_result, fetchCount, ret >>

\* Mutant: a home-page status other than 200 ends the attempt.
GotoHome_CheckStatus ==
    /\ pc = "goto_home"
    /\ \/ /\ \E s \in HopStatuses :
                /\ homepage_response' = Some(s)
                /\ IF s = 200
                   THEN pc' = "idle_home" /\ UNCHANGED sip_return
                   ELSE pc' = "finally" /\ sip_return' = Some(ErrorResult(HttpError(s)))
          /\ Log("goto_home", "ok")
       \/ /\ \E e \in Exceptions : Handler("goto_home", e)
          /\ UNCHANGED homepage_response
    /\ UNCHANGED << trackerVars, browser, closeCalls, initScript,
                    game_response, response, result, page_text, fallback_result, fetchCount, ret >>

\* Lines 373-374: homepage_response = await page.goto(base_url + "/")
GotoHome ==
    /\ pc = "goto_home"
    /\ \/ /\ \E s \in HopStatuses : homepage_response' = Some(s)
          /\ pc' = "idle_home"
          /\ Log("goto_home", "ok")
          /\ UNCHANGED sip_return
       \/ /\ \E e \in Exceptions : Handler("goto_home", e)
          /\ UNCHANGED homepage_response
    /\ UNCHANGED << trackerVars, browser, closeCalls, initScript,
                    game_response, response, result, page_text, fallback_result, fetchCount, ret >>

\* Mutant: the category hop is skipped.
IdleHome_SkipCategory ==
    /\ Await("idle_home", "idle_home", "goto_target")
    /\ homepage_response' = None
    /\ UNCHANGED << trackerVars, browser, closeCalls, initScript,
                    game_response, response, result, page_text, fallback_result, fetchCount, ret >>

\* Lines 375-379: wait_for_load_state('networkidle'), then the random sleep
IdleHome ==
    /\ Await("idle_home", "idle_home", "goto_category")
    /\ homepage_response' = None
    /\ UNCHANGED << trackerVars, browser, closeCalls, initScript,
                    game_response, response, result, page_text, fallback_result, fetchCount, ret >>

\* Lines 382-385: game_response = await page.goto(game_url)
GotoCategory ==
    /\ pc = "goto_category"
    /\ \/ /\ \E s \in HopStatuses : game_response' = Some(s)
          /\ pc' = "idle_category"
          /\ Log("goto_category", "ok")
          /\ UNCHANGED sip_return
       \/ /\ \E e \in Exceptions : Handler("goto_category", e)
          /\ UNCHANGED game_response
    /\ UNCHANGED << trackerVars, browser, closeCalls, initScript, homepage_response,
                    response, result, page_text, fallback_result, fetchCount, ret >>

\* Lines 386-389: wait_for_load_state('networkidle'), then the random sleep
IdleCategory ==
    /\ Await("idle_category", "idle_category", "goto_target")
    /\ game_response' = None
    /\ UNCHANGED << trackerVars, browser, closeCalls, initScript, homepage_response,
                    response, result, page_text, fallback_result, fetchCount, ret >>

\* Mutant: challenge handling is entered after every target response.
GotoTarget_AlwaysChallenge ==
    /\ pc = "goto_target"
    /\ \/ /\ \E s \in Statuses, m \in BOOLEAN :
                /\ response' = Some([status |-> s, mitigated |-> m])
                /\ pc' = "challenge_idle"
                /\ LogResponse("goto_target", s)
          /\ UNCHANGED sip_return
       \/ /\ \E e \in Exceptions : Handler("goto_target", e)
          /\ UNCHANGED response
    /\ UNCHANGED << trackerVars, browser, closeCalls, initScript, homepage_response,
                    game_response, result, page_text, fallback_result, fetchCount, ret >>

\* Lines 393-397: response = await page.goto(item_url, timeout=30000); the
\* challenge branch is taken on status 403 or a cf-mitigated header.
GotoTarget ==
    /\ pc = "goto_target"
    /\ \/ /\ \E s \in Statuses, m \in BOOLEAN :
                /\ response' = Some([status |-> s, mitigated |-> m])
                /\ pc' = IF ChallengeDetected(s, m) THEN "challenge_idle" ELSE "check_status"
                /\ LogResponse("goto_target", s)
          /\ UNCHANGED sip_return
       \/ /\ \E e \in Exceptions : Handler("goto_target", e)
          /\ UNCHANGED response
    /\ UNCHANGED << trackerVars, browser, closeCalls, initScript, homepage_response,
                    game_response, result, page_text, fallback_result, fetchCount, ret >>

\* The except clause of lines 419-420: an exception of challenge handling
\* is logged and the attempt goes on to the status test of line 422.
ChallengeFailed(name, e) ==
    /\ pc' = "check_status"
    /\ Log(name, e.kind)

\* Lines 402-403: wait_for_load_state("networkidle", timeout=15000), sleep(3)
ChallengeIdle ==
    /\ pc = "challenge_idle"
    /\ \/ /\ pc' = "challenge_content"
          /\ Log("challenge_idle", "ok")
       \/ \E e \in Exceptions : ChallengeFailed("challenge_idle", e)
    /\ UNCHANGED << trackerVars, browser, closeCalls, initScript, homepage_response,
                    game_response, response, result, page_text, sip_return, fallback_result,
                    fetchCount, ret >>

\* Mutant: the page is taken for a challenge page whatever it holds.
StillChallenge_Always(m) == TRUE

\* Lines 407-410: any(indicator in page_content.lower() for indicator in
\* ['checking your browser', 'cloudflare', 'please wait', 'ddos protection'])
StillChallenge(m) == m.indicator

\* Lines 406-412: page_content = await page.content(); the indicator test;
\* sleep(5) when an indicator is found.
ChallengeContent ==
    /\ pc = "challenge_content"
    /\ \/ \E m \in Markups :
            /\ pc' = IF StillChallenge(m) THEN "challenge_reload" ELSE "check_status"
            /\ Log("challenge_content", IF m.indicator THEN "indicator" ELSE "ok")
       \/ \E e \in Exceptions : ChallengeFailed("challenge_content", e)
    /\ UNCHANGED << trackerVars, browser, closeCalls, initScript, homepage_response,
                    game_response, response, result, page_text, sip_return, fallback_result,
                    fetchCount, ret >>

\* Mutant: the response of the reload is not kept.
ChallengeReload_KeepOriginal ==
    /\ pc = "challenge_reload"
    /\ \/ /\ \E s \in Statuses : LogResponse("reload", s)
          /\ pc' = "challenge_reidle"
          /\ UNCHANGED response
       \/ /\ \E e \in Exceptions : ChallengeFailed("reload", e)
          /\ UNCHANGED response
    /\ UNCHANGED << trackerVars, browser, closeCalls, initScript, homepage_response,
                    game_response, result, page_text, sip_return, fallback_result,
                    fetchCount, ret >>

\* Line 416: response = await page.reload(timeout=30000); on an exception
\* the assignment does not happen.  Only the status of the new response is
\* ever read, so `mitigated` keeps telling of the target navigation.
ChallengeReload ==
    /\ pc = "challenge_reload"
    /\ \/ /\ \E s \in Statuses :
                /\ response' = Some([response[1] EXCEPT !.status = s])
                /\ LogResponse("reload", s)
          /\ pc' = "challenge_reidle"
       \/ /\ \E e \in Exceptions : ChallengeFailed("reload", e)
          /\ UNCHANGED response
    /\ UNCHANGED << trackerVars, browser, closeCalls, initScript, homepage_response,
                    game_response, result, page_text, sip_return, fallback_result,
                    fetchCount, ret >>

\* Line 417: wait_for_load_state("networkidle", timeout=10000)
ChallengeReIdle ==
    /\ pc = "challenge_reidle"
    /\ \/ /\ pc' = "check_status"
          /\ Log("challenge_reidle", "ok")
       \/ \E e \in Exceptions : ChallengeFailed("challenge_reidle", e)
    /\ UNCHANGED << trackerVars, browser, closeCalls, initScript, homepage_response,
                    game_response, response, result, page_text, sip_return, fallback_result,
                    fetchCount, ret >>

\* Lines 422-436: a status other than 200 ends the attempt with
\* "HTTP <status>"; page.content() is read for the log only and its
\* exception is swallowed.
NonOkStatus ==
    /\ pc = "check_status"
    /\ response[1].status # 200
    /\ \/ Log("error_content", "ok")
       \/ \E e \in Exceptions : Log("error_content", e.kind)
    /\ sip_return' = Some(ErrorResult(HttpError(response[1].status)))
    /\ pc' = "finally"
    /\ UNCHANGED << trackerVars, browser, closeCalls, initScript, homepage_response,
                    game_response, response, result, page_text, fallback_result, fetchCount, ret >>

\* Lines 438-440: wait_for_load_state('networkidle'), then the random sleep
FinalIdle ==
    /\ pc = "check_status"
    /\ response[1].status = 200
    /\ \/ /\ pc' = "content"
          /\ Log("final_idle", "ok")
          /\ UNCHANGED sip_return
       \/ \E e \in Exceptions : Handler("final_idle", e)
    /\ UNCHANGED << trackerVars, browser, closeCalls, initScript, homepage_response,
                    game_response, response, result, page_text, fallback_result, fetchCount, ret >>

\* Lines 443-469: page_text = await page.content(), the extraction and the
\* result record; float() of a malformed capture raises into the handler.
Extract ==
    /\ pc = "content"
    /\ \/ \E m \in Markups :
            /\ page_text' = Some(m)
            /\ IF ExtractRaises(m)
               THEN /\ Handler("extract", ValueError)
                    /\ UNCHANGED result
               ELSE /\ result' = Some(BrowserSuccess(m))
                    /\ pc' = "close"
                    /\ Log("extract", "ok")
                    /\ UNCHANGED sip_return
       \/ /\ \E e \in Exceptions : Handler("content", e)
          /\ UNCHANGED << result, page_text >>
    /\ UNCHANGED << trackerVars, browser, closeCalls, initScript, homepage_response,
                    game_response, response, fallback_result, fetchCount, ret >>

\* Lines 471-473: await browser.close(); return result.  An exception of
\* close() is inside the try block and reaches the handler.
CloseAndReturn ==
    /\ pc = "close"
    /\ closeCalls' = closeCalls + 1
    /\ \/ /\ browser' = "closed"
          /\ sip_return' = result
          /\ pc' = "finally"
          /\ Log("close", "ok")
       \/ /\ \E e \in Exceptions : Handler("close", e)
          /\ UNCHANGED browser
    /\ UNCHANGED << trackerVars, initScript, homepage_response,
                    game_response, response, result, page_text, fallback_result, fetchCount, ret >>

\* Lines 491-496: the finally clause calls browser.close() again, on every
\* path; with `browser` unbound (launch failed) the name lookup raises and
\* no call is made.  Either exception is logged only.
Finally ==
    /\ pc = "finally"
    /\ IF browser = "unbound"
       THEN /\ Log("finally_close", UnboundLocalError.kind)
            /\ UNCHANGED << browser, closeCalls >>
       ELSE /\ closeCalls' = closeCalls + 1
            /\ \/ /\ browser' = "closed"
                  /\ Log("finally_close", "ok")
               \/ /\ \E e \in Exceptions : Log("finally_close", e.kind)
                  /\ UNCHANGED browser
    /\ pc' = "fallback_test"
    /\ UNCHANGED << trackerVars, initScript, homepage_response,
                    game_response, response, result, page_text, sip_return, fallback_result,
                    fetchCount, ret >>

\* --------------------------------------------- scrape_with_fallback
\* Line 559: the fallback is tried when the browser result is an error
\* whose text holds "403".
FallbackWanted(r) == r.status = "error" /\ Mentions403(Get(r, "error", << >>))

\* Lines 556-559 and 571: the browser result is returned unless the fallback
\* is wanted.
FallbackTest ==
    /\ pc = "fallback_test"
    /\ IF FallbackWanted(sip_return[1])
       THEN /\ pc' = "fallback_get"
            /\ UNCHANGED ret
       ELSE /\ pc' = "returned"
            /\ ret' = Returned(sip_return[1])
    /\ UNCHANGED << trackerVars, browser, closeCalls, initScript, steps,
                    homepage_response, game_response, response, result, page_text, sip_return,
                    fallback_result, fetchCount >>

\* The except clause of lines 549-551.
FallbackFailed(e) == ErrorResult(<< "Fallback", "failed:" >> \o Str(e))

\* Lines 506-519: the session, the random sleep and session.get with its
\* 30 s total timeout; the status classification.
FallbackGet ==
    /\ pc = "fallback_get"
    /\ fetchCount' = fetchCount + 1
    /\ \/ /\ \E s \in Statuses :
                /\ LogResponse("fallback_get", s)
                /\ IF s = 403
                   THEN /\ fallback_result' = Some(ErrorResult(<< "HTTP", "403" >>))
                        /\ pc' = "combine"
                   ELSE IF s # 200
                   THEN /\ fallback_result' = Some(ErrorResult(HttpError(s)))
                        /\ pc' = "combine"
                   ELSE /\ pc' = "fallback_text"
                        /\ UNCHANGED fallback_result
       \/ \E e \in Exceptions :
            /\ fallback_result' = Some(FallbackFailed(e))
            /\ pc' = "combine"
            /\ Log("fallback_get", e.kind)
    /\ UNCHANGED << trackerVars, browser, closeCalls, initScript,
                    homepage_response, game_response, response, result, page_text, sip_return, ret >>

\* Lines 521-547: content = await response.text() and the reduced extraction.
FallbackText ==
    /\ pc = "fallback_text"
    /\ \/ /\ \E m \in Markups : fallback_result' = Some(FallbackExtract(m))
          /\ Log("fallback_text", "ok")
       \/ \E e \in Exceptions :
            /\ fallback_result' = Some(FallbackFailed(e))
            /\ Log("fallback_text", e.kind)
    /\ pc' = "combine"
    /\ UNCHANGED << trackerVars, browser, closeCalls, initScript, fetchCount,
                    homepage_response, game_response, response, result, page_text, sip_return, ret >>

\* Mutant: a failed fallback is tried once more.
Combine_Retry ==
    /\ pc = "combine"
    /\ IF fallback_result[1].status = "error" /\ fetchCount < 2
       THEN /\ pc' = "fallback_get"
            /\ UNCHANGED ret
       ELSE /\ pc' = "returned"
            /\ ret' = IF fallback_result[1].status = "error"
                      THEN Returned([sip_return[1] EXCEPT !.error =
                                CombinedError(sip_return[1].error, fallback_result[1].error)])
                      ELSE Returned(fallback_result[1])
    /\ UNCHANGED << trackerVars, browser, closeCalls, initScript, steps,
                    homepage_response, game_response, response, result, page_text, sip_return,
                    fallback_result, fetchCount >>

\* Mutant: a successful fallback is merged into the browser's failure record.
Combine_Merge ==
    /\ pc = "combine"
    /\ ret' = IF fallback_result[1].status = "error"
              THEN Returned([sip_return[1] EXCEPT !.error =
                               CombinedError(sip_return[1].error, fallback_result[1].error)])
              ELSE Returned(fallback_result[1] @@ sip_return[1])
    /\ pc' = "returned"
    /\ UNCHANGED << trackerVars, browser, closeCalls, initScript, steps,
                    homepage_response, game_response, response, result, page_text, sip_return,
                    fallback_result, fetchCount >>

\* Lines 563-571: both failed: the browser result with the combined error;
\* otherwise the fallback's result.
Combine ==
    /\ pc = "combine"
    /\ ret' = IF fallback_result[1].status = "error"
              THEN Returned([sip_return[1] EXCEPT !.error =
                               CombinedError(sip_return[1].error, fallback_result[1].error)])
              ELSE Returned(fallback_result[1])
    /\ pc' = "returned"
    /\ UNCHANGED << trackerVars, browser, closeCalls, initScript, steps,
                    homepage_response, game_response, response, result, page_text, sip_return,
                    fallback_result, fetchCount >>

\* ------------------------------------------------------ track_all_items
Event(ev, id) == [ev |-> ev, id |-> id]

\* Mutant: the sync is made also when nothing was loaded.
TrackStart_SyncAnyway ==
    /\ tpc = "idle"
    /\ \E csv \in SeqsUpTo(CsvRows, MaxRows) :
         /\ reader' = csv
         /\ portfolio_items' = load_portfolio_from_csv(csv)
         /\ tpc' = "loaded"
    /\ UNCHANGED << portfolio_file, assigned, price_history_file, storeVars, stored_items, idx, events,
                    attemptVars, parseVars >>

\* Lines 70-74: load the portfolio CSV; return when nothing was loaded.
TrackStart ==
    /\ tpc = "idle"
    /\ \E csv \in SeqsUpTo(CsvRows, MaxRows) :
         /\ reader' = csv
         /\ portfolio_items' = load_portfolio_from_csv(csv)
         /\ tpc' = IF portfolio_items' = << >> THEN "done" ELSE "loaded"
    /\ UNCHANGED << portfolio_file, assigned, price_history_file, storeVars, stored_items, idx, events,
                    attemptVars, parseVars >>

\* Lines 76-81: sync the list loaded to the storage and read the stored
\* items back; portfolio_items is not read after the sync.
TrackSync ==
    /\ tpc = "loaded"
    /\ portfolio_file' = sync_portfolio_items(portfolio_file, portfolio_items, now)
    /\ assigned' = assigned \cup IdLinks(portfolio_file')
    /\ stored_items' = get_portfolio_items(portfolio_file')
    /\ reader' = << >>
    /\ portfolio_items' = << >>
    /\ idx' = 1
    /\ tpc' = "loop"
    /\ UNCHANGED << price_history_file, storeVars, events, attemptVars, parseVars >>

\* Lines 84-87: the next item of the loop; scrape_with_fallback is called.
TrackItem ==
    /\ tpc = "loop"
    /\ idx <= Len(stored_items)
    /\ tpc' = "scraping"
    /\ pc' = "start_playwright"
    /\ events' = Append(events, Event("attempt", stored_items[idx].id))
    /\ AttemptReset
    /\ UNCHANGED << portfolio_file, assigned, price_history_file, storeVars, reader, portfolio_items, stored_items, idx,
                    parseVars >>

\* Mutant: the exception ends the loop (a try block around the for loop).
TrackExcept_Abort ==
    /\ events' = Append(events, Event("error", stored_items[idx].id))
    /\ idx' = Len(stored_items) + 1
    /\ tpc' = "loop"

\* The except clause of lines 93-94: the error is logged and the loop goes
\* on with the next item.
TrackExcept ==
    /\ events' = Append(events, Event("error", stored_items[idx].id))
    /\ idx' = idx + 1
    /\ tpc' = "loop"

\* save_price_data at clock reading t: the row is appended; `saves` notes
\* it for the item and the answer of an earlier query is gone.
SaveRow(item_id, item_name, price_data, t) ==
    /\ price_history_file' = save_price_data(price_history_file, item_id, item_name, price_data, t)
    /\ now' = t
    /\ saves' = [saves EXCEPT ![item_id] = Append(@, price_history_file'[Len(price_history_file')])]
    /\ answer' = None

\* Line 88: save_price_data appends one row to the price history, or raises.
\* The scrape before it took seconds, so the clock reads later than at the
\* last save.
SavePriceData ==
    /\ tpc = "scraping"
    /\ pc = "returned"
    /\ ret.kind = "return"
    /\ \/ /\ SaveRow(stored_items[idx].id, stored_items[idx].name, ret.value, now + 1)
          /\ events' = Append(events, Event("save", stored_items[idx].id))
          /\ tpc' = "sleep"
          /\ UNCHANGED idx
       \/ /\ TrackExcept
          /\ UNCHANGED << price_history_file, storeVars >>
    /\ pc' = "idle"
    /\ AttemptReset
    /\ UNCHANGED << portfolio_file, assigned, reader, portfolio_items, stored_items, parseVars >>

\* scrape_with_fallback raised: lines 93-94.
ScrapeRaised ==
    /\ tpc = "scraping"
    /\ pc = "returned"
    /\ ret.kind = "raise"
    /\ TrackExcept
    /\ pc' = "idle"
    /\ AttemptReset
    /\ UNCHANGED << portfolio_file, assigned, price_history_file, storeVars, reader, portfolio_items, stored_items,
                    parseVars >>

\* Line 91: await asyncio.sleep(random.uniform(3, 6))
PacingSleep ==
    /\ tpc = "sleep"
    /\ events' = Append(events, Event("sleep", stored_items[idx].id))
    /\ idx' = idx + 1
    /\ tpc' = "loop"
    /\ UNCHANGED << portfolio_file, assigned, price_history_file, storeVars, reader, portfolio_items, stored_items,
                    attemptVars, parseVars >>

\* Line 96: the loop is over.
TrackDone ==
    /\ tpc = "loop"
    /\ idx > Len(stored_items)
    /\ tpc' = "done"
    /\ UNCHANGED << portfolio_file, assigned, price_history_file, storeVars, reader, portfolio_items, stored_items,
                    idx, events, attemptVars, parseVars >>

Next ==
    \/ TrackStart
    \/ TrackSync
    \/ TrackItem
    \/ StartPlaywright
    \/ Launch
    \/ NewContext
    \/ AddInitScript
    \/ NewPage
    \/ GotoHome
    \/ IdleHome
    \/ GotoCategory
    \/ IdleCategory
    \/ GotoTarget
    \/ ChallengeIdle
    \/ ChallengeContent
    \/ ChallengeReload
    \/ ChallengeReIdle
    \/ NonOkStatus
    \/ FinalIdle
    \/ Extract
    \/ CloseAndReturn
    \/ Finally
    \/ FallbackTest
    \/ FallbackGet
    \/ FallbackText
    \/ Combine
    \/ SavePriceData
    \/ ScrapeRaised
    \/ PacingSleep
    \/ TrackDone

Spec == Init /\ [][Next]_vars

\* The event loop runs every awaited call until it returns or raises: the
\* page and HTTP calls are bounded by timeouts and the sleeps are finite.
SpecLive == Init /\ [][Next]_vars /\ WF_vars(Next)

\* ------------------------------------------- _extract_seller_prices alone
\* Number of price tokens of a text given to _extract_seller_prices.
MaxTokens == 3

\* Tokens the pattern of line 596 finds, around the two ends of the range:
\* "9,99", "10,00", "9999,99", "10000", "10,000.00" and "14,50".
Tok_9_99 == << "9", ",", "9", "9" >>
Tok_10_00 == << "1", "0", ",", "0", "0" >>
Tok_9999_99 == << "9", "9", "9", "9", ",", "9", "9" >>
Tok_10000 == << "1", "0", "0", "0", "0" >>
Tok_10_000_00 == << "1", "0", ",", "0", "0", "0", ".", "0", "0" >>
SellerTokens == { Tok_9_99, Tok_10_00, Tok_9999_99, Tok_10000, Tok_10_000_00, Tok_14_50 }

\* str(n) of a natural number, as a token of digits.
RECURSIVE NumTok(_)
NumTok(n) ==
    IF n < 10 THEN << CHOOSE c \in Digits : DigitVal(c) = n >>
    ELSE Append(NumTok(n \div 10), CHOOSE c \in Digits : DigitVal(c) = n % 10)

\* How many tokens more than the limit of the list a long text holds.
Overflow == 2

\* Long texts: the whole-number tokens from 9 or from 10 upwards, as many as
\* the limit of the list or up to Overflow more, listed upwards or downwards.
LongTexts ==
    UNION { { [i \in 1..n |-> NumTok(lo + i - 1)], [i \in 1..n |-> NumTok(lo + n - i)] } :
              lo \in { 9, 10 }, n \in SellerLimit..(SellerLimit + Overflow) }

\* Lines 594-618: a first call of _extract_seller_prices(text), on a text
\* holding up to MaxTokens price tokens or on a long text.
ExtractSellerPrices ==
    /\ seller_text = << >>
    /\ \E tokens \in SeqsUpTo(SellerTokens, MaxTokens) \cup LongTexts :
          /\ seller_text' = tokens
          /\ seller_prices' = _extract_seller_prices(tokens)
    /\ UNCHANGED << portfolio_file, assigned, price_history_file, storeVars, tpc, reader, portfolio_items,
                    stored_items, idx, events, attemptVars, fieldVars >>

\* The text with the tokens at positions i and j exchanged.
Swap(text, i, j) ==
    [k \in 1..Len(text) |-> IF k = i THEN text[j] ELSE IF k = j THEN text[i] ELSE text[k]]

\* The same tokens in another order: two neighbours exchanged (a short
\* text), or the first and the last token exchanged, or the text reversed.
Reorderings(text) ==
    { Swap(text, 1, Len(text)), [k \in 1..Len(text) |-> text[Len(text) + 1 - k]] }
      \cup (IF Len(text) <= MaxTokens
            THEN { Swap(text, i, i + 1) : i \in 1..(Len(text) - 1) }
            ELSE {})

\* Lines 594-618: a further call of _extract_seller_prices, on a markup
\* holding the tokens of the last one in another order.
ExtractReordered ==
    /\ seller_text # << >>
    /\ \E tokens \in Reorderings(seller_text) :
          /\ seller_text' = tokens
          /\ seller_prices' = _extract_seller_prices(tokens)
    /\ UNCHANGED << portfolio_file, assigned, price_history_file, storeVars, tpc, reader, portfolio_items,
                    stored_items, idx, events, attemptVars, fieldVars >>

NextSellers ==
    \/ ExtractSellerPrices
    \/ ExtractReordered

SpecSellers == Init /\ [][NextSellers]_vars

\* ------------------------------------------------- the price history alone
\* Number of rows saved, and the largest limit asked of get_price_history.
MaxSaves == 3
MaxLimit == 2

\* price_data of the saves: a success with a price and a failure.
SamplePriceData ==
    { [status |-> "success", from_price |-> Some(1450 * Pow10(Decimals - 2)),
       available_items |-> Some(125)],
      ErrorResult(HttpError(404)) }

\* Lines 109-138: save_price_data(item_id, item_name, price_data) called
\* directly; two calls can read the same clock value.
SavePriceDataCall ==
    /\ Len(price_history_file) < MaxSaves
    /\ \E item_id \in { 1, 2 }, price_data \in SamplePriceData, t \in { now, now + 1 } :
          SaveRow(item_id, "Card", price_data, t)
    /\ UNCHANGED << portfolio_file, assigned, tpc, reader, portfolio_items, stored_items, idx, events,
                    attemptVars, parseVars >>

\* Lines 140-149: get_latest_price_data(item_id)
GetLatestPriceData ==
    /\ \E item_id \in ItemIds :
          answer' = Some([op |-> "latest", item_id |-> item_id,
                          value |-> get_latest_price_data(price_history_file, item_id)])
    /\ UNCHANGED << portfolio_file, assigned, price_history_file, now, saves, tpc, reader, portfolio_items,
                    stored_items, idx, events, attemptVars, parseVars >>

\* Lines 151-163: get_price_history(item_id, limit)
GetPriceHistory ==
    /\ \E item_id \in ItemIds, limit \in 0..MaxLimit :
          answer' = Some([op |-> "history", item_id |-> item_id, limit |-> limit,
                          value |-> get_price_history(price_history_file, item_id, limit)])
    /\ UNCHANGED << portfolio_file, assigned, price_history_file, now, saves, tpc, reader, portfolio_items,
                    stored_items, idx, events, attemptVars, parseVars >>

\* tracker.py lines 98-117: get_portfolio_summary()
GetPortfolioSummary ==
    /\ answer' = Some([op |-> "summary",
                       value |-> get_portfolio_summary(portfolio_file, price_history_file)])
    /\ UNCHANGED << portfolio_file, assigned, price_history_file, now, saves, tpc, reader,
                    portfolio_items, stored_items, idx, events, attemptVars, parseVars >>

\* Lines 48-98: sync_portfolio_items([]) called between the saves; the loop
\* body is not entered and the clock is not read.
SyncEmptyCall ==
    /\ portfolio_file' = sync_portfolio_items(portfolio_file, << >>, now)
    /\ assigned' = assigned \cup IdLinks(portfolio_file')
    /\ answer' = None
    /\ UNCHANGED << price_history_file, now, saves, tpc, reader, portfolio_items, stored_items,
                    idx, events, attemptVars, parseVars >>

NextStorage ==
    \/ SavePriceDataCall
    \/ GetLatestPriceData
    \/ GetPriceHistory
    \/ GetPortfolioSummary
    \/ SyncEmptyCall

SpecStorage == Init /\ [][NextStorage]_vars

\* --------------------------------------------------- _extract_price alone
\* Length of the captures tried.
MaxCapture == 4

\* The captures of the tests test_extract_price_european_format and
\* test_extract_price_thousands_separator: "127,50" and "1,234.56".
Tok_127_50 == << "1", "2", "7", ",", "5", "0" >>
Tok_1_234_56 == << "1", ",", "2", "3", "4", ".", "5", "6" >>

\* What the group ([\d,]+\.?\d*) of the price patterns can capture: digits
\* and commas, at least one, then possibly a period and digits.
PriceCaptureShape(s) ==
    LET d == FirstDot(s)
        head == IF d = 0 THEN s ELSE SubSeq(s, 1, d - 1)
        tail == IF d = 0 THEN << >> ELSE SubSeq(s, d + 1, Len(s))
    IN  /\ head # << >>
        /\ \A i \in 1..Len(head) : head[i] \in Digits \cup { "," }
        /\ AllDigits(tail)

PriceCaptures ==
    { s \in SeqsUpTo({ "1", "5", ",", "." }, MaxCapture) : PriceCaptureShape(s) }
      \cup { Tok_127_50, Tok_1_234_56, Tok_14_50, Tok_1_2_3 }

\* Lines 580-592: _extract_price(text, pattern) on a text where the pattern
\* captures a token, or does not match.
ExtractPrice ==
    /\ \E capture \in { None } \cup { Some(s) : s \in PriceCaptures } :
          /\ field_capture' = capture
          /\ field_value' = IF _extract_price_raises(capture)
                            THEN Raised(ValueError)
                            ELSE Returned(_extract_price(capture))
    /\ UNCHANGED << portfolio_file, assigned, price_history_file, storeVars, tpc, reader, portfolio_items,
                    stored_items, idx, events, attemptVars, sellerVars >>

NextFields == ExtractPrice

SpecFields == Init /\ [][NextFields]_vars

\* ------------------------------------------------ sync_portfolio_items alone
\* Number of direct calls, and the longest list passed.
MaxSyncs == 3
MaxItems == 2

\* Items passed to sync_portfolio_items: two links, the first also with
\* other values.
SyncItems ==
    { [link |-> "/en/Magic/Products/A", name |-> "Card A", purchase_date |-> "2024-01-15",
       quantity |-> 1, purchase_price |-> Some(1050 * Pow10(Decimals - 2))],
      [link |-> "/en/Magic/Products/A", name |-> "Card A (foil)", purchase_date |-> "2024-02-01",
       quantity |-> 3, purchase_price |-> None],
      [link |-> "/en/Pokemon/Products/B", name |-> "Card B", purchase_date |-> "",
       quantity |-> 2, purchase_price |-> None] }

\* Lines 48-98: sync_portfolio_items(items) called directly with any list,
\* the empty one included; each call reads a later clock.
SyncPortfolioItemsCall ==
    /\ now < MaxSyncs
    /\ \E items \in SeqsUpTo(SyncItems, MaxItems) :
         /\ portfolio_items' = items
         /\ portfolio_file' = sync_portfolio_items(portfolio_file, items, now + 1)
    /\ assigned' = assigned \cup IdLinks(portfolio_file')
    /\ now' = now + 1
    /\ UNCHANGED << price_history_file, saves, answer, tpc, reader, stored_items, idx, events,
                    attemptVars, parseVars >>

\* Lines 100-107: get_portfolio_items()
GetPortfolioItems ==
    /\ stored_items' = get_portfolio_items(portfolio_file)
    /\ UNCHANGED << portfolio_file, assigned, price_history_file, storeVars, tpc, reader,
                    portfolio_items, idx, events, attemptVars, parseVars >>

NextSync ==
    \/ SyncPortfolioItemsCall
    \/ GetPortfolioItems

SpecSync == Init /\ [][NextSync]_vars

TypeOK ==
    /\ tpc \in { "idle", "loaded", "loop", "scraping", "sleep", "done" }
    /\ browser \in { "unbound", "open", "closed" }
    /\ closeCalls \in 0..2
    /\ fetchCount \in 0..1
    /\ ret.kind \in { "none", "return", "raise" }
    /\ Len(seller_text) <= SellerLimit + Overflow
    /\ Len(seller_prices) <= SellerLimit

\* ================================================================= claims
\* scrape_item_price has returned (its finally clause has run).
SipReturned == pc \in { "fallback_test", "fallback_get", "fallback_text", "combine", "returned" }
                 /\ sip_return # None

\* The calls of the attempt that raised a timeout.
TimedOutSteps == { steps[i].step : i \in { k \in 1..Len(steps) : steps[k].outcome = "TimeoutError" } }

\* The status the target navigation answered (0 when it did not answer).
TargetStatus ==
    IF \E i \in 1..Len(steps) : steps[i].step = "goto_target" /\ steps[i].outcome = "ok"
    THEN steps[CHOOSE i \in 1..Len(steps) : steps[i].step = "goto_target"].status
    ELSE 0

\* The ids of the items the loop called scrape_with_fallback for, in order.
AttemptedIds == SelectSeq(events, LAMBDA ev : ev.ev = "attempt")

\* C1: an attempt that opened a browser session closes it exactly once,
\* whatever the exit path: never twice at any time, and once when
\* scrape_item_price has returned.
C1_ClosedExactlyOnce ==
    /\ closeCalls <= 1
    /\ (SipReturned /\ browser # "unbound") => closeCalls = 1

\* C2: scrape_item_price never raises to its caller: whatever raised in the
\* attempt, the engine start included, the outcome is a returned record.
C2_NeverRaises == ret.kind # "raise"

\* C3: whatever the outcome of one holding's attempt, the attempts of the
\* later holdings are run: the items attempted so far are the items of the
\* stored list up to the loop's position, and the whole list when the run
\* is over.
C3_LaterHoldingsAttempted ==
    LET n == IF tpc \in { "scraping", "sleep" } THEN idx
             ELSE IF tpc = "loop" THEN idx - 1
             ELSE Len(stored_items)
    IN  /\ Len(AttemptedIds) = n
        /\ \A i \in 1..n : AttemptedIds[i].id = stored_items[i].id

\* C3 witness: the run is over, the first holding's attempt ended in the
\* except clause and the second holding was attempted after it.
C3_Witness ==
    /\ tpc = "done"
    /\ Len(stored_items) = 2
    /\ \E i, j \in 1..Len(events) :
         /\ i < j
         /\ events[i] = Event("error", stored_items[1].id)
         /\ events[j] = Event("attempt", stored_items[2].id)

\* C4: when the run is over, the price history holds exactly one snapshot
\* for every holding of the run.
C4_OneSnapshotPerHolding ==
    tpc = "done" =>
        \A i \in 1..Len(stored_items) :
            Cardinality({ k \in 1..Len(price_history_file) :
                            price_history_file[k].item_id = stored_items[i].id }) = 1

\* C5: a direct request is made only after a browser failure caused by
\* HTTP 403, that is after the error "HTTP 403": not after a success, another
\* HTTP status, a timeout or any other exception.
C5_FallbackOnlyAfterHttp403 ==
    fetchCount > 0 => sip_return = Some(ErrorResult(HttpError(403)))

\* C6: when the target answered 403 and the status is still 403 after
\* challenge handling, the fallback is run; when it fails too, the record
\* returned is a failure whose error holds the browser detail "HTTP 403"
\* and the fallback's detail (twice "403" when the fallback got 403).
C6_BothErrorsKept ==
    (/\ pc = "returned"
     /\ ret.kind = "return"
     /\ TargetStatus = 403
     /\ response[1].status = 403) =>
        /\ fetchCount = 1
        /\ fallback_result # None
        /\ fallback_result[1].status = "error" =>
              /\ ret.value.status = "error"
              /\ Contains(ret.value.error, << "Browser:", "HTTP", "403" >>)
              /\ Contains(ret.value.error, << "Fallback:" >> \o fallback_result[1].error)
        /\ fallback_result[1] = ErrorResult(<< "HTTP", "403" >>) =>
              ret.value.error = << "Browser:", "HTTP", "403", ",", "Fallback:", "HTTP", "403" >>

\* C6 witness: 403 on the target, no reload, 403 on the direct request.
C6_Witness ==
    /\ pc = "returned"
    /\ ret.kind = "return"
    /\ TargetStatus = 403
    /\ response[1].status = 403
    /\ fallback_result = Some(ErrorResult(<< "HTTP", "403" >>))
    /\ ret.value.error = << "Browser:", "HTTP", "403", ",", "Fallback:", "HTTP", "403" >>

\* C7: a target status other than 200 and 403 without the mitigation
\* header: no challenge handling, no reload, no direct request, and the
\* attempt returns the failure "HTTP <status>".
C7_OtherStatusFailsDirectly ==
    (TargetStatus \notin { 0, 200, 403 } /\ ~response[1].mitigated) =>
        /\ \A i \in 1..Len(steps) : steps[i].step \notin { "challenge_idle", "reload" }
        /\ fetchCount = 0
        /\ SipReturned => sip_return = Some(ErrorResult(<< "HTTP", ToString(TargetStatus) >>))
        /\ pc = "returned" => ret = Returned(ErrorResult(<< "HTTP", ToString(TargetStatus) >>))

\* C7 witness: the target answered 404 and "HTTP 404" was returned.
C7_Witness ==
    /\ pc = "returned"
    /\ TargetStatus = 404
    /\ ~response[1].mitigated
    /\ ret = Returned(ErrorResult(<< "HTTP", "404" >>))

\* The bounded calls outside challenge handling and inside it.
SequencerCalls == { "goto_home", "idle_home", "goto_category", "idle_category",
                    "goto_target", "final_idle" }
ChallengeCalls == { "challenge_idle", "reload", "challenge_reidle" }

C9_CloseFailureKeepsResult ==
    (SipReturned /\ result # None /\ TimedOutSteps \cap { "close", "finally_close" } # {}) =>
        sip_return = result

\* The hops of the sequencer with their idle waits, in the order of the code.
Spine == << "goto_home", "idle_home", "goto_category", "idle_category", "goto_target" >>
SpineNames == { Spine[i] : i \in 1..Len(Spine) }
SpineSteps == SelectSeq(steps, LAMBDA st : st.step \in SpineNames)

\* C10: the navigations of an attempt are home, category, target in that
\* order, each after the previous hop and its idle wait completed, none
\* repeated and none skipped; a result is extracted only after all three.
C10_HopsInOrder ==
    LET hops == SpineSteps
        n == Len(hops)
    IN  /\ n <= Len(Spine)
        /\ \A i \in 1..n :
              /\ hops[i].step = Spine[i]
              /\ i < n => hops[i].outcome = "ok"
        /\ result # None =>
              /\ n = Len(Spine)
              /\ hops[n].outcome = "ok"

\* C10 witness: a result was extracted after the three hops.
C10_Witness ==
    /\ result # None
    /\ Len(SpineSteps) = Len(Spine)

\* The links of a list of items, in order.
LinkSeq(items) == [i \in 1..Len(items) |-> items[i].link]

\* The links of a list of items in the order of their first occurrence.
RECURSIVE FirstLinks(_, _)
FirstLinks(items, seen) ==
    IF items = << >> THEN << >>
    ELSE IF Head(items).link \in seen THEN FirstLinks(Tail(items), seen)
    ELSE << Head(items).link >> \o FirstLinks(Tail(items), seen \cup { Head(items).link })

\* The loop calls scrape_with_fallback for the item after those attempted.
AttemptsFollowStoredList ==
    (tpc = "loop" /\ tpc' = "scraping") =>
        events' = Append(events, Event("attempt", stored_items[Len(AttemptedIds) + 1].id))

\* C11 as stated: whatever the storage held before, the holdings of the CSV
\* are attempted in the order in which the CSV lists them.
C11_AttemptsInCsvOrder ==
    [][/\ tpc = "loaded" =>
            SelectSeq(LinkSeq(stored_items'),
                      LAMBDA l : \E i \in 1..Len(portfolio_items) : portfolio_items[i].link = l)
              = FirstLinks(portfolio_items, {})
       /\ AttemptsFollowStoredList]_vars

\* C11 amended: the attempts are made in the order of the item list read
\* back from the storage after the sync: the items the storage already
\* held, in their stored order, then the new holdings in CSV order.
C11_AttemptsInStoredOrder ==
    [][/\ tpc = "loaded" =>
            LinkSeq(stored_items')
              = LinkSeq(portfolio_file)
                  \o FirstLinks(portfolio_items,
                                { portfolio_file[i].link : i \in 1..Len(portfolio_file) })
       /\ AttemptsFollowStoredList]_vars

\* C11 witness: the run is over and two stored items, card B first, were
\* attempted in the order of the stored list.
C11_Witness ==
    /\ tpc = "done"
    /\ LinkSeq(stored_items) = << "/en/Pokemon/Products/B", "/en/Magic/Products/A" >>
    /\ Len(AttemptedIds) = 2
    /\ AttemptedIds[1].id = stored_items[1].id
    /\ AttemptedIds[2].id = stored_items[2].id

\* C12: the pacing delay is slept after each item before the next item's
\* attempt starts, whatever way the item's attempt ended: every attempt but
\* the first comes right after a sleep.
C12_SleepBeforeNextAttempt ==
    \A j \in 2..Len(events) : events[j].ev = "attempt" => events[j - 1].ev = "sleep"

\* The positions in `steps` of the calls of page.reload().
Reloads == { i \in 1..Len(steps) : steps[i].step = "reload" }

\* The calls of challenge handling (lines 401-417).
ChallengeSteps == { "challenge_idle", "challenge_content", "reload", "challenge_reidle" }

\* Challenge handling was entered in this attempt.
ChallengeEntered ==
    \/ pc = "challenge_idle"
    \/ \E i \in 1..Len(steps) : steps[i].step = "challenge_idle"

\* C13: within one attempt the page is reloaded at most once, and only
\* after the target answered 403 or with the mitigation header and the page
\* markup read just before held a challenge-indicator phrase.
C13_SingleReloadOnIndicator ==
    /\ Cardinality(Reloads) <= 1
    /\ (pc = "challenge_reload" \/ Reloads # {}) =>
          /\ Reloads = {} <=> pc = "challenge_reload"
          /\ response # None
          /\ TargetStatus = 403 \/ response[1].mitigated
          /\ LET i == IF Reloads = {} THEN Len(steps) + 1 ELSE CHOOSE k \in Reloads : TRUE
             IN  /\ i > 1
                 /\ steps[i - 1] = Step("challenge_content", "indicator", 0)

\* C13 witness: a target answering 200 with the mitigation header showed a
\* challenge page, the reload was made and the attempt has returned.
C13_Witness ==
    /\ SipReturned
    /\ TargetStatus = 200
    /\ \E i \in Reloads : steps[i].outcome = "ok"

\* The status that decides after challenge handling: that of the reload
\* when one returned a response, that of the target navigation otherwise.
DecidingStatus ==
    IF \E i \in Reloads : steps[i].outcome = "ok"
    THEN steps[CHOOSE i \in Reloads : TRUE].status
    ELSE TargetStatus

\* C14: after challenge handling the deciding status is that of the reload
\* when one was made and that of the target navigation otherwise; 200
\* rejoins extraction (the idle wait of line 439 is made), any other status
\* ends the attempt with the failure "HTTP <deciding status>" and without
\* extraction.
C14_DecidingStatus ==
    (ChallengeEntered /\ sip_return # None) =>
        LET rejoined == \E i \in 1..Len(steps) : steps[i].step = "final_idle"
        IN  IF DecidingStatus = 200
            THEN rejoined
            ELSE /\ ~rejoined
                 /\ sip_return[1] = ErrorResult(HttpError(DecidingStatus))

\* C14 witness: the target answered 403, the reload answered 200 and the
\* attempt ended in success.
C14_Witness ==
    /\ SipReturned
    /\ TargetStatus = 403
    /\ \E i \in Reloads : steps[i].outcome = "ok" /\ steps[i].status = 200
    /\ sip_return[1].status = "success"

\* C15: challenge handling is entered if and only if the target response
\* has status 403 or carries the mitigation header; after a 200 without the
\* header no call of challenge handling is made and the call after the
\* target navigation is the idle wait before extraction.
C15_ChallengeIffSignal ==
    (TargetStatus # 0 /\ response # None) =>
        /\ ChallengeEntered <=> (TargetStatus = 403 \/ response[1].mitigated)
        /\ (TargetStatus = 200 /\ ~response[1].mitigated) =>
              /\ \A i \in 1..Len(steps) : steps[i].step \notin ChallengeSteps
              /\ LET t == CHOOSE i \in 1..Len(steps) : steps[i].step = "goto_target"
                 IN  t < Len(steps) => steps[t + 1].step = "final_idle"

\* C15 witness: a 200 without the header went straight to extraction and
\* the attempt returned success.
C15_Witness ==
    /\ SipReturned
    /\ TargetStatus = 200
    /\ ~response[1].mitigated
    /\ sip_return[1].status = "success"

\* The positions in `steps` of the direct requests of the fallback.
DirectRequests == { i \in 1..Len(steps) : steps[i].step = "fallback_get" }

\* C16 as stated: the fallback's direct response is classified by its
\* status: 403 gives the failure "HTTP 403", another status than 200 the
\* failure "HTTP <status>", and 200, once the body was read, a success
\* holding a count or a price, or else the failure "No data extracted".
C16_FallbackClassification ==
    (fallback_result # None /\ \E i \in DirectRequests : steps[i].outcome = "ok") =>
        LET status == steps[CHOOSE i \in DirectRequests : TRUE].status
            r == fallback_result[1]
        IN  /\ status = 403 => r = ErrorResult(<< "HTTP", "403" >>)
            /\ status \notin { 200, 403 } => r = ErrorResult(HttpError(status))
            /\ (status = 200 /\ steps[Len(steps)] = Step("fallback_text", "ok", 0)) =>
                  \/ /\ r.status = "success"
                     /\ ~IsNone(r.available_items) \/ ~IsNone(r.from_price)
                  \/ r = ErrorResult(<< "No", "data", "extracted" >>)

\* C17: one call of scrape_with_fallback makes at most one direct request
\* and at most one browser attempt, and after the direct request no call of
\* the browser attempt and no further request follows, whatever the
\* fallback's outcome.
C17_NoFurtherFallback ==
    /\ fetchCount <= 1
    /\ Cardinality(DirectRequests) <= 1
    /\ Cardinality({ i \in 1..Len(steps) : steps[i].step = "async_playwright" }) <= 1
    /\ \A i \in DirectRequests :
          /\ \A j \in 1..Len(steps) : j > i => steps[j].step = "fallback_text"
          /\ pc \in { "fallback_text", "combine", "returned" }

\* C17 witness: the direct request was answered 403 and the call returned
\* the combined failure.
C17_Witness ==
    /\ pc = "returned"
    /\ fetchCount = 1
    /\ fallback_result = Some(ErrorResult(<< "HTTP", "403" >>))
    /\ ret.kind = "return"
    /\ ret.value.status = "error"

\* The record scrape_with_fallback returned is the fallback's success.
FromFallback ==
    /\ pc = "returned"
    /\ ret.kind = "return"
    /\ fallback_result # None
    /\ fallback_result[1].status = "success"

\* C18 as stated: every record scrape_with_fallback returns carries a
\* method tag, that of the fallback when it came from the fallback.
C18_EveryRecordTagged ==
    (pc = "returned" /\ ret.kind = "return") =>
        /\ "method" \in DOMAIN ret.value
        /\ FromFallback => ret.value.method = "http_fallback"

\* C18 amended: only a success of the fallback carries a method tag
\* ("http_fallback"), with trend and the three averages absent, an empty
\* seller list, seller count 0 and absent min/max; the records of the
\* browser path and the failure records carry no method tag.
C18_OnlyFallbackTagged ==
    (pc = "returned" /\ ret.kind = "return") =>
        IF FromFallback
        THEN /\ ret.value = fallback_result[1]
             /\ "method" \in DOMAIN ret.value
             /\ ret.value.method = "http_fallback"
             /\ ret.value.price_trend = None
             /\ ret.value.avg_30_days = None
             /\ ret.value.avg_7_days = None
             /\ ret.value.avg_1_day = None
             /\ ret.value.seller_prices = << >>
             /\ ret.value.seller_count = 0
             /\ ret.value.min_seller_price = None
             /\ ret.value.max_seller_price = None
        ELSE "method" \notin DOMAIN ret.value

\* C18 witness: the browser attempt failed with "HTTP 403" and the record
\* returned is the fallback's success.
C18_Witness ==
    /\ FromFallback
    /\ sip_return = Some(ErrorResult(HttpError(403)))
    /\ ret.value.status = "success"

\* An error detail is present in a record exactly when it is a failure.
ErrorIffFailure(r) == ("error" \in DOMAIN r) <=> (r.status = "error")

\* C19: in every record returned by scrape_item_price, by
\* _fallback_http_scrape and by scrape_with_fallback an error detail is
\* present if and only if the status is the failure status.
C19_ErrorDetailIffFailure ==
    /\ sip_return # None => ErrorIffFailure(sip_return[1])
    /\ fallback_result # None => ErrorIffFailure(fallback_result[1])
    /\ (pc = "returned" /\ ret.kind = "return") => ErrorIffFailure(ret.value)

\* C19 witness: a fallback success replaced a 403 failure of the browser
\* attempt and carries no error detail.
C19_Witness ==
    /\ FromFallback
    /\ sip_return[1].status = "error"
    /\ "error" \notin DOMAIN ret.value

\* The values the tokens of seller_text parse to.
ParsedValues ==
    { FloatValue(NormalizeSeparators(seller_text[k])) :
        k \in { i \in 1..Len(seller_text) : FloatValid(NormalizeSeparators(seller_text[i])) } }

\* C20 as stated: the prices kept are exactly the parsed values in the
\* half-open range [10, 10000): 10000 is excluded, 9999.99 is included and
\* 9.99 is excluded.
C20_HalfOpenRange ==
    { seller_prices[i] : i \in 1..Len(seller_prices) }
        = { v \in ParsedValues : 10 * Pow10(Decimals) <= v /\ v < 10000 * Pow10(Decimals) }

\* C21: the list _extract_seller_prices returns is strictly ascending, so
\* without a duplicate, and holds at most 50 values.
C21_SortedDedupCapped ==
    /\ \A i \in 1..(Len(seller_prices) - 1) : seller_prices[i] < seller_prices[i + 1]
    /\ Len(seller_prices) <= 50

\* C21 witness: a text with more than 50 distinct values in range gave a
\* list of 50.
C21_Witness ==
    /\ Cardinality({ v \in ParsedValues : 10 * Pow10(Decimals) <= v }) > 50
    /\ Len(seller_prices) = 50

\* Two texts hold the same tokens, each as many times.
SameTokens(s, t) ==
    /\ Len(s) = Len(t)
    /\ \A i \in 1..Len(s) :
          Cardinality({ k \in 1..Len(s) : s[k] = s[i] })
            = Cardinality({ k \in 1..Len(t) : t[k] = s[i] })

\* C22: two calls of _extract_seller_prices on texts holding the same
\* tokens in different orders return the same list, also when the list is
\* cut to 50.
C22_OrderIndependent ==
    [][(seller_text # << >> /\ SameTokens(seller_text, seller_text'))
          => seller_prices' = seller_prices]_vars

\* C22 witness: the text of 10..61 listed downwards was parsed; its list
\* is cut at 59.
C22_Witness ==
    /\ Len(seller_text) > 50
    /\ seller_text[1] = NumTok(10 + Len(seller_text) - 1)
    /\ Len(seller_prices) = 50
    /\ seller_prices[50] = 59 * Pow10(Decimals)

\* The success records of the attempt in hand: the result built by the
\* browser path, what scrape_item_price and the fallback returned and what
\* scrape_with_fallback returned.
SuccessRecords ==
    { r \in { x[1] : x \in { result, sip_return, fallback_result } \ { None } }
              \cup (IF ret.kind = "return" THEN { ret.value } ELSE {}) :
        r.status = "success" }

\* C23: in every success record seller_count is the length of the seller
\* list; min and max are the smallest and the largest price of the list,
\* min <= max, when it is not empty, and both are absent when it is.
C23_SellerSummary ==
    \A r \in SuccessRecords :
        LET prices == { r.seller_prices[i] : i \in 1..Len(r.seller_prices) }
        IN  /\ r.seller_count = Len(r.seller_prices)
            /\ IF prices = {}
               THEN r.min_seller_price = None /\ r.max_seller_price = None
               ELSE /\ r.min_seller_price # None /\ r.max_seller_price # None
                    /\ r.min_seller_price[1] \in prices
                    /\ r.max_seller_price[1] \in prices
                    /\ \A v \in prices : r.min_seller_price[1] <= v /\ v <= r.max_seller_price[1]
                    /\ r.min_seller_price[1] <= r.max_seller_price[1]

\* C23 witness: scrape_with_fallback returned a success with several
\* seller prices, and so min < max.
C23_Witness ==
    /\ pc = "returned"
    /\ ret.kind = "return"
    /\ ret.value.status = "success"
    /\ ret.value.seller_count > 1
    /\ ret.value.min_seller_price[1] < ret.value.max_seller_price[1]

\* The six single-value fields of lines 446-451.
SingleValueFields ==
    { "available_items", "from_price", "price_trend", "avg_30_days", "avg_7_days", "avg_1_day" }
PriceFields == SingleValueFields \ { "available_items" }

\* C24 as stated: a price field whose captured token is no decimal number
\* after the separator normalisation is absent in the result, and the
\* attempt still builds a success record with the other fields.
C24_BadTokenFieldAbsent ==
    \A f \in PriceFields :
        (page_text # None /\ _extract_price_raises(page_text[1][f])) =>
            /\ result # None
            /\ result[1].status = "success"
            /\ result[1][f] = None
            /\ result[1].available_items = _extract_number(page_text[1].available_items)

\* C25: a single-value field whose pattern does not match the markup is
\* absent (None, not zero) in the result, and the missing match raises
\* nothing: when no captured token is malformed the extraction ends well.
C25_NoMatchFieldAbsent ==
    page_text # None =>
        /\ (\A f \in PriceFields : ~_extract_price_raises(page_text[1][f])) =>
              result # None
        /\ result # None =>
              \A f \in SingleValueFields :
                  page_text[1][f] = None => (result[1][f] = None /\ result[1][f] # Some(0))

\* C25 witness: a page without any field gave a success record with the
\* six fields absent, and scrape_item_price returned it.
C25_Witness ==
    /\ SipReturned
    /\ page_text # None
    /\ \A f \in SingleValueFields : page_text[1][f] = None
    /\ sip_return[1].status = "success"
    /\ \A f \in SingleValueFields : sip_return[1][f] = None

WithDecimalComma(token) == [i \in 1..Len(token) |-> IF token[i] = "," THEN "." ELSE token[i]]
\* The token without its commas.
WithoutCommas(token) == SelectSeq(token, LAMBDA c : c # ",")

\* C26: when _extract_price returns a value for a captured token, a token
\* with a comma and no period was read with a decimal comma ("127,50" gives
\* 127.50), a token with a comma and a period was read without its commas
\* ("1,234.56" gives 1234.56), and a token with neither was read as it is.
C26_SeparatorRule ==
    (field_capture # None /\ field_value.kind = "return") =>
        LET token == field_capture[1]
            value == field_value.value
        IN  /\ value # None
            /\ (HasChar(token, ",") /\ ~HasChar(token, ".")) =>
                  value[1] = FloatValue(WithDecimalComma(token))
            /\ (HasChar(token, ",") /\ HasChar(token, ".")) =>
                  value[1] = FloatValue(WithoutCommas(token))
            /\ ~HasChar(token, ",") => value[1] = FloatValue(token)
            /\ token = Tok_127_50 => value[1] = 12750 * Pow10(Decimals - 2)
            /\ token = Tok_1_234_56 => value[1] = 123456 * Pow10(Decimals - 2)

\* C26 witness: the capture "1,234.56" was parsed to 1234.56.
C26_Witness ==
    /\ field_capture = Some(Tok_1_234_56)
    /\ field_value = Returned(Some(123456 * Pow10(Decimals - 2)))

\* The positions in `steps` of the navigations (page.goto).
Navigations == { i \in 1..Len(steps) : steps[i].step \in { "goto_home", "goto_category", "goto_target" } }

\* One attempt makes at most three navigations, one reload and one direct
\* request, and repeats no call.
BoundedAttempt ==
    /\ Cardinality(Navigations) <= 3
    /\ Cardinality(Reloads) <= 1
    /\ Cardinality(DirectRequests) <= 1
    /\ \A i, j \in 1..Len(steps) : steps[i].step = steps[j].step => i = j

\* Every call of scrape_with_fallback comes to an end, and so does the run.
Terminates ==
    /\ \A i \in 1..(MaxRows + 1) :
          (tpc = "scraping" /\ idx = i) ~> (tpc = "scraping" /\ idx = i /\ pc = "returned")
    /\ <>(tpc = "done")

\* C28 as stated: every call of scrape_with_fallback ends, after at most
\* three navigations, one reload and one direct request, with a success or
\* failure record, and track_all_items completes.
C28_TerminatesWithRecord ==
    /\ []BoundedAttempt
    /\ [](pc = "returned" => ret.kind = "return")
    /\ Terminates

\* The termination alone: the part of C28 that does not rest on the outcome
\* being a record.
C28_TerminationAlone == []BoundedAttempt /\ Terminates

\* C29: get_latest_price_data(item) returns the row saved last for the
\* item, whatever was saved for other items since, and nothing when no row
\* was saved for it.
C29_LatestIsLastSaved ==
    (answer # None /\ answer[1].op = "latest") =>
        LET saved == saves[answer[1].item_id]
        IN  answer[1].value = IF saved = << >> THEN None ELSE Some(saved[Len(saved)])

\* C29 witness: two rows were saved for item 1, then one for item 2, and
\* the query for item 1 returned the second row of item 1.
C29_Witness ==
    /\ answer # None
    /\ answer[1].op = "latest"
    /\ answer[1].item_id = 1
    /\ Len(saves[1]) = 2
    /\ saves[1][1] # saves[1][2]
    /\ price_history_file[Len(price_history_file)].item_id = 2
    /\ answer[1].value = Some(saves[1][2])

\* C30 as stated: get_price_history(item, limit) returns rows of the item
\* only, min(limit, number of rows saved for the item) of them, the row
\* saved last first and the others in the reverse of the order of saving.
C30_HistoryMostRecentFirst ==
    (answer # None /\ answer[1].op = "history") =>
        LET saved == saves[answer[1].item_id]
            history == answer[1].value
        IN  /\ \A k \in 1..Len(history) : history[k].item_id = answer[1].item_id
            /\ Len(history) = IF answer[1].limit < Len(saved) THEN answer[1].limit ELSE Len(saved)
            /\ \A k \in 1..Len(history) : history[k] = saved[Len(saved) + 1 - k]

\* The rows of the file with this link.
RowsOfLink(file, link) == { i \in 1..Len(file) : file[i].link = link }

\* The links of the list are pairwise distinct.
DistinctLinks(items) ==
    \A i, j \in 1..Len(items) : items[i].link = items[j].link => i = j

\* A direct call of sync_portfolio_items has just returned.
SyncCalled == now' = now + 1

\* C31: sync_portfolio_items is an upsert keyed by link: after a call with
\* a list of distinct links, storage holds exactly one entry per link of the
\* list, with the name, quantity, purchase price and purchase date of the
\* input; a link stored before keeps its id and its creation time, and
\* the other links get an entry created at the call.
C31_UpsertByLink ==
    [][(SyncCalled /\ DistinctLinks(portfolio_items'))
         => \A k \in 1..Len(portfolio_items') :
              LET item_data == portfolio_items'[k]
                  after == RowsOfLink(portfolio_file', item_data.link)
                  before == RowsOfLink(portfolio_file, item_data.link)
              IN  /\ Cardinality(after) = 1
                  /\ \A j \in after :
                       /\ portfolio_file'[j].name = item_data.name
                       /\ portfolio_file'[j].quantity = item_data.quantity
                       /\ portfolio_file'[j].purchase_price = item_data.purchase_price
                       /\ portfolio_file'[j].purchase_date = item_data.purchase_date
                       /\ portfolio_file'[j].updated_at = now'
                       /\ \A i \in before :
                            /\ portfolio_file'[j].id = portfolio_file[i].id
                            /\ portfolio_file'[j].created_at = portfolio_file[i].created_at
                       /\ before = {} => portfolio_file'[j].created_at = now']_vars

\* A stored link was synced again with other values: one entry, the id and
\* the creation time of the first sync, the values of the second.
C31_Witness ==
    /\ Len(portfolio_items) = 1
    /\ portfolio_items[1].name = "Card A (foil)"
    /\ \E j \in 1..Len(portfolio_file) :
         /\ portfolio_file[j].link = portfolio_items[1].link
         /\ portfolio_file[j].name = "Card A (foil)"
         /\ portfolio_file[j].quantity = 3
         /\ portfolio_file[j].created_at < portfolio_file[j].updated_at
    /\ Len(portfolio_file) = 2

\* C36: sync_portfolio_items never removes a stored item: after a call
\* with any list, the empty one included, every link stored before the call
\* is still stored, under the same id.
C36_SyncNeverRemoves ==
    [][SyncCalled
         => \A i \in 1..Len(portfolio_file) :
              \E j \in 1..Len(portfolio_file') :
                 /\ portfolio_file'[j].link = portfolio_file[i].link
                 /\ portfolio_file'[j].id = portfolio_file[i].id]_vars

\* The same property for the calls with a list that is not empty.
C36_NonEmptySyncKeeps ==
    [][(SyncCalled /\ portfolio_items' # << >>)
         => \A i \in 1..Len(portfolio_file) :
              \E j \in 1..Len(portfolio_file') :
                 /\ portfolio_file'[j].link = portfolio_file[i].link
                 /\ portfolio_file'[j].id = portfolio_file[i].id]_vars

\* C37: the ids of the stored items are pairwise distinct, and an id once
\* given to a link is never given to another link.
C37_IdsBelongToOneLink ==
    /\ \A i, j \in 1..Len(portfolio_file) :
          portfolio_file[i].id = portfolio_file[j].id => i = j
    /\ \A p, q \in assigned : p[1] = q[1] => p[2] = q[2]

\* The ids of the stored items are pairwise distinct at all times.
C37_StoredIdsDistinct ==
    \A i, j \in 1..Len(portfolio_file) :
       portfolio_file[i].id = portfolio_file[j].id => i = j

\* The item load_portfolio_from_csv makes of a row.
ItemOfRow(row) ==
    [link |-> row.Link, name |-> row.Name, purchase_date |-> row.Date,
     quantity |-> row.Quantity, purchase_price |-> row.Price]

\* The rows with a link, a name and a valid quantity, in file order.
RECURSIVE ValidRows(_)
ValidRows(rows) ==
    IF rows = << >> THEN << >>
    ELSE IF Head(rows).Link # "" /\ Head(rows).Name # "" /\ Head(rows).QuantityValid
         THEN << ItemOfRow(Head(rows)) >> \o ValidRows(Tail(rows))
         ELSE ValidRows(Tail(rows))

\* The rows before the first one whose quantity is not a number.
RECURSIVE UpToBadQuantity(_)
UpToBadQuantity(rows) ==
    IF rows = << >> \/ ~Head(rows).QuantityValid THEN << >>
    ELSE << Head(rows) >> \o UpToBadQuantity(Tail(rows))

\* C32: load_portfolio_from_csv returns, in file order, exactly the rows
\* with a link, a name and valid numbers: a row without link or name or with
\* an invalid quantity is skipped, and no valid row before or after it is
\* dropped.
C32_LoadsExactlyValidRows ==
    reader # << >> => portfolio_items = ValidRows(reader)

\* What the load returns: the valid rows before the first invalid quantity.
C32_LoadsUpToBadQuantity ==
    reader # << >> => portfolio_items = ValidRows(UpToBadQuantity(reader))

\* The page.goto calls of the attempt.
GotoSteps == { "goto_home", "goto_category", "goto_target" }

\* C33: the init script is added to the context before the first navigation
\* of the attempt: no page.goto (home, category, target) is issued, or about
\* to be, on a context without it.
C33_InitScriptBeforeNavigation ==
    /\ pc \in GotoSteps => initScript
    /\ \A i \in 1..Len(steps) : steps[i].step \in GotoSteps => initScript

\* The three navigations were issued, on a context with the init script.
C33_Witness ==
    /\ initScript
    /\ \A g \in GotoSteps : \E i \in 1..Len(steps) : steps[i].step = g
    /\ TargetStatus = 200

\* A hop response is in hand: the attempt is at the idle wait after the hop,
\* it has not failed, and neither challenge handling nor the fallback has
\* been entered.
HopAnswered(hop_response, at) ==
    hop_response # None =>
        /\ pc = at
        /\ sip_return = None
        /\ ~ChallengeEntered
        /\ fetchCount = 0
        /\ DirectRequests = {}

\* The idle wait after a hop completed: the next hop is issued.
HopProceeds(at, next) ==
    (pc = at /\ steps' = Append(steps, Step(at, "ok", 0))) => pc' = next

\* C34: a hop response, whatever its status (403 included), neither fails
\* the attempt nor starts challenge handling or the fallback, and once the
\* idle wait after the hop has completed the next hop is issued.
C34_HopStatusIgnored ==
    /\ [](HopAnswered(homepage_response, "idle_home")
            /\ HopAnswered(game_response, "idle_category"))
    /\ [][HopProceeds("idle_home", "goto_category")
            /\ HopProceeds("idle_category", "goto_target")]_vars

\* The category hop answered 403 after the home hop was made, and the
\* attempt is going on.
C34_Witness ==
    /\ game_response = Some(403)
    /\ pc = "idle_category"
    /\ \E i \in 1..Len(steps) : steps[i] = Step("idle_home", "ok", 0)
    /\ sip_return = None

\* The calls of the browser path after the deciding response of status 200.
AfterDeciding == { "final_idle", "content", "extract", "close" }

\* One of them raised.
RaisedAfterDeciding ==
    \E i \in 1..Len(steps) : steps[i].step \in AfterDeciding /\ steps[i].outcome # "ok"

\* No single-value field and no seller price in the record.
NothingExtracted(r) ==
    /\ \A f \in SingleValueFields : r[f] = None
    /\ r.seller_prices = << >>
    /\ r.seller_count = 0

\* The fallback returns Success only with a count or a From price.
FallbackSuccessHasData ==
    (fallback_result # None /\ fallback_result[1].status = "success") =>
        \/ fallback_result[1].available_items # None
        \/ fallback_result[1].from_price # None

LinksOf(items) == { items[i].link : i \in 1..Len(items) }

\* C38: the items scraped in a run of track_all_items are the full content
\* of storage after the sync: the list the loop goes through holds every
\* holding loaded in the run and every item stored before it, and when the
\* run is over the items attempted are the rows of the storage file.
C38_ScrapesWholeStorage ==
    /\ [][tpc = "loaded" =>
            /\ stored_items' = portfolio_file'
            /\ LinksOf(portfolio_items) \subseteq LinksOf(stored_items')
            /\ LinksOf(portfolio_file) \subseteq LinksOf(stored_items')]_vars
    /\ []((tpc = "done" /\ stored_items # << >>) =>
            /\ stored_items = portfolio_file
            /\ { AttemptedIds[i].id : i \in 1..Len(AttemptedIds) }
                 = { portfolio_file[i].id : i \in 1..Len(portfolio_file) }
            /\ Len(AttemptedIds) = Len(portfolio_file))

\* A run that loaded card A only, on storage holding card B from an earlier
\* run (still with the four copies of that time): both were attempted.
C38_Witness ==
    /\ tpc = "done"
    /\ Len(portfolio_file) = 2
    /\ portfolio_file[1].link = "/en/Pokemon/Products/B"
    /\ portfolio_file[1].quantity = 4
    /\ portfolio_file[2].link = "/en/Magic/Products/A"
    /\ Len(AttemptedIds) = 2
    /\ AttemptedIds[1].id = portfolio_file[1].id
    /\ AttemptedIds[2].id = portfolio_file[2].id

\* A direct call of save_price_data has just returned.
SaveCalled == saves' # saves

\* C39: the price history is append-only: a save_price_data call adds one
\* row at the end and leaves the rows before it as they were, and no other
\* operation (sync, the reads, the summary) changes the file.
C39_HistoryAppendOnly ==
    [][IF SaveCalled
       THEN /\ Len(price_history_file') = Len(price_history_file) + 1
            /\ SubSeq(price_history_file', 1, Len(price_history_file)) = price_history_file
       ELSE price_history_file' = price_history_file]_vars

\* Two rows are in the history, a sync has emptied the item storage since
\* and the summary was read: the rows are there.
C39_Witness ==
    /\ Len(price_history_file) = 2
    /\ assigned # {}
    /\ portfolio_file = << >>
    /\ answer # None
    /\ answer[1].op = "summary"

\* C40: when load_portfolio_from_csv yields no holdings, track_all_items
\* does nothing: the run is over at once, storage is not synced, no attempt
\* is made and no price record is written, whatever storage holds.
C40_EmptyLoadDoesNothing ==
    /\ [][(tpc = "idle" /\ portfolio_items' = << >>) =>
            /\ tpc' = "done"
            /\ pc' = "idle"
            /\ UNCHANGED << portfolio_file, price_history_file, stored_items, events >>]_vars
    /\ []((tpc = "done" /\ stored_items = << >>) =>
            /\ portfolio_file \in PriorFiles
            /\ price_history_file = << >>
            /\ events = << >>
            /\ pc = "idle")

\* The CSV had rows but no valid one, storage holds card B of an earlier
\* run: the run is over, card B is still stored and nothing was attempted.
C40_Witness ==
    /\ tpc = "done"
    /\ reader # << >>
    /\ portfolio_items = << >>
    /\ portfolio_file # << >>
    /\ stored_items = << >>
    /\ events = << >>
    /\ price_history_file = << >>

====
